---- MODULE Spec2Model ----
(***************************************************************************)
(* Model of the temporal analysis pipeline of                              *)
(* backend/ai_agents/action_timeline.py: the bounded parallel map, the     *)
(* keyframe scan, the justification chunker and the stage sequence of      *)
(* analyze_video.                                                          *)
(*                                                                         *)
(* Times are integers in milliseconds (the code rounds every timestamp it  *)
(* stores to 3 decimals); raw timestamps of an external response are in    *)
(* tenths of a millisecond so that rounding is a real conversion.          *)
(* Frame signatures are one intensity value in hundredths (0..100).        *)
(***************************************************************************)
EXTENDS Integers, Sequences, FiniteSets

VARIABLES
  \* _parallel_map
  pm_pc, pm_items, pm_workers, pm_next, pm_status, pm_fut, pm_results,
  pm_order, pm_exc, pm_nthreads, pm_ret, pm_log,
  \* the requests executing right now, each tagged with the stage that issued it
  inflight,
  \* analyze_video: stage sequence
  stage, phase, env, concurrency, has_frames, has_cuts, rq_left, rq_busy, written,
  raised, artifact, completed,
  \* analyze_video: inputs and configuration shared by the stages
  duration, frames, cfg,
  \* analyze_video: the keyframe scan
  kf_pc, index, prev_signature, last_caption_time, last_caption_id,
  segment_start, captions, events, selected,
  \* analyze_video: the entity list, the snapshot each keyframe request was
  \* given, and the answers the captioning capability may give in this run
  known_entities, caption_requests, vlm_answers,
  \* analyze_video: per-second descriptions and the justification chunker
  jcfg, per_second_times, describe_requests, per_second_descriptions, jt_pc,
  jt_t, justification_timeline, last_chunk,
  \* analyze_video: the transcript and the window aggregator
  bgcfg, audio_segments, bg_pc, bg_t, state, last_caption_marker,
  last_audio_marker, background_updates, bg_log,
  \* analyze_video: scene cuts and scene segments
  pts_stream, sc_status, scene_cuts, segment_requests, scene_segments, seg_pc

pmVars == <<pm_pc, pm_items, pm_workers, pm_next, pm_status, pm_fut,
            pm_results, pm_order, pm_exc, pm_nthreads, pm_ret, pm_log>>

pipeVars == <<stage, phase, env, concurrency, has_frames, has_cuts, rq_left,
              rq_busy, written, raised, artifact, completed>>

inVars == <<duration, frames, cfg>>

kfVars == <<kf_pc, index, prev_signature, last_caption_time, last_caption_id,
            segment_start, captions, events, selected, caption_requests,
            vlm_answers>>

jtVars == <<jcfg, per_second_times, describe_requests, per_second_descriptions,
            jt_pc, jt_t, justification_timeline, last_chunk>>

bgVars == <<bgcfg, audio_segments, bg_pc, bg_t, state, last_caption_marker,
            last_audio_marker, background_updates, bg_log>>

segVars == <<pts_stream, sc_status, scene_cuts, segment_requests, scene_segments,
             seg_pc>>

vars == <<pmVars, inflight, pipeVars, inVars, kfVars, known_entities, jtVars,
          bgVars, segVars>>

\* What a step of _parallel_map leaves alone.
notPM == <<pipeVars, inVars, kfVars, known_entities, jtVars, bgVars, segVars>>
\* What a call of func inside _parallel_map leaves alone, besides the entity
\* list its closure holds.
notFunc == <<pipeVars, inVars, kfVars, jtVars, bgVars, segVars>>
\* What a step of the stage sequence leaves alone, besides what it names.
notPipe == <<inVars, kfVars, known_entities, jtVars, bgVars, segVars>>
\* What a request of a sequential stage leaves alone, besides what it names
\* and the entity list it is given.
notRequest == <<inVars, kfVars, jtVars, bgVars, segVars>>
\* What a step of the keyframe scan leaves alone.
notKF == <<pmVars, inflight, pipeVars, inVars, jtVars, bgVars, segVars>>
\* What a step of the justification chunker leaves alone.
notJT == <<pmVars, inflight, pipeVars, inVars, kfVars, known_entities, bgVars, segVars>>
\* What a step of the window aggregator leaves alone, besides the entity list
\* its state refers to.
notBG == <<pmVars, inflight, pipeVars, inVars, kfVars, jtVars, segVars>>
\* What a step of the scene segmentation leaves alone, besides the variables
\* of the _parallel_map call it makes.
notSeg == <<pipeVars, inVars, kfVars, known_entities, jtVars, bgVars>>

\* ------------------------------------------------------------------ bounds
MaxItems == 3
MaxWorkers == 3
MaxFrames == 4
MaxResponseItems == 2
MaxCuts == 2

\* ----------------------------------------------------------------- helpers
Max(a, b) == IF a >= b THEN a ELSE b
Min(a, b) == IF a <= b THEN a ELSE b

Abs(a) == IF a >= 0 THEN a ELSE -a

\* One second, in the model's time unit (a tenth of a millisecond).
Second == 10000

\* round(x, 3) of a time: the nearest whole millisecond, a tie going to the
\* even one.
Round3(x) ==
  LET q == x \div 10
      r == x % 10
  IN  IF r < 5 THEN 10 * q
      ELSE IF r > 5 THEN 10 * (q + 1)
      ELSE IF q % 2 = 0 THEN 10 * q ELSE 10 * (q + 1)

RECURSIVE SeqsUpTo(_, _)
SeqsUpTo(S, n) ==
  IF n = 0 THEN {<<>>}
  ELSE LET shorter == SeqsUpTo(S, n - 1)
       IN  shorter \cup {Append(s, x) : s \in {q \in shorter : Len(q) = n - 1}, x \in S}

\* ========================================================= known entities
\* The labels a captioning answer may carry in its people and objects lists,
\* as returned (before _coerce_list), and str(item).strip() of each.
RawLabels == {"", "ann", " ann", "ball"}
StripLabel(label) == IF label = " ann" THEN "ann" ELSE label

\* Whether x occurs in the list seq.
InList(x, seq) == \E i \in 1..Len(seq) : seq[i] = x

\* _coerce_list(value) for a list: every label is stripped, blank labels and
\* repetitions are dropped, first occurrences keep their order.
RECURSIVE CoerceListFrom(_, _)
CoerceListFrom(items, output) ==
  IF items = <<>> THEN output
  ELSE LET label == StripLabel(Head(items))
       IN  IF label = "" \/ InList(label, output)
           THEN CoerceListFrom(Tail(items), output)
           ELSE CoerceListFrom(Tail(items), Append(output, label))

CoerceList(value) == CoerceListFrom(value, <<>>)

\* _normalize_caption_payload, for the two lists the entity merge reads.
NormalizeCaptionPayload(payload) ==
  [people |-> CoerceList(payload.people), objects |-> CoerceList(payload.objects)]

\* The answers of the captioning capability: people and objects as lists of
\* raw labels.
MaxLabels == 2
RawPayloads ==
  [people : SeqsUpTo(RawLabels, MaxLabels), objects : SeqsUpTo({"ann", "cup"}, 1)]
NoEntitiesPayload == [people |-> <<>>, objects |-> <<>>]
FewPayloads ==
  {NoEntitiesPayload,
   [people |-> <<"ann">>, objects |-> <<>>],
   [people |-> <<>>, objects |-> <<"cup">>]}

\* (mutant) every item is appended, known or not.
MergeEntitiesNoDedup(entities, items) == entities \o items

\* for item in caption["people"] + caption["objects"]:
\*     if item and item not in known_entities: known_entities.append(item)
RECURSIVE MergeEntities(_, _)
MergeEntities(entities, items) ==
  IF items = <<>> THEN entities
  ELSE IF Head(items) # "" /\ ~InList(Head(items), entities)
       THEN MergeEntities(Append(entities, Head(items)), Tail(items))
       ELSE MergeEntities(entities, Tail(items))

\* known_entities after a selected frame was captioned with `payload`.
EntitiesAfterCaption(entities, payload) ==
  LET caption == NormalizeCaptionPayload(payload)
  IN  MergeEntities(entities, caption.people \o caption.objects)

\* (mutant) a describing request merges what it saw into the list.
EntitiesAfterRunMerged(entities, payload) == EntitiesAfterCaption(entities, payload)

\* known_entities after a request of any other stage: _caption_frame,
\* _describe_frame, _describe_scene_segment and _summarize_background put the
\* list in the prompt and leave it as it is.
EntitiesAfterRun(entities, payload) == entities

\* ============================================================ _parallel_map
\* The value None of a result slot that was never written.
None == 0

\* The request function: deterministic in its item, distinct from None.
func(item) == item + 10

ItemVals == {1, 2}
ItemLists == SeqsUpTo(ItemVals, MaxItems)
WorkerCaps == 0..MaxWorkers

Running == {i \in 1..Len(pm_status) : pm_status[i] = "running"}
Finished == {i \in 1..Len(pm_status) : pm_status[i] \in {"ok", "err"}}
Queued == {i \in 1..Len(pm_status) : pm_status[i] = "queued"}
\* The futures as_completed has yielded so far (pm_order, in yield order).
Collected == {pm_order[k] : k \in 1..Len(pm_order)}

PMIdle ==
  /\ pm_pc = "idle"
  /\ pm_items = <<>>
  /\ pm_workers = 0
  /\ pm_next = 1
  /\ pm_status = <<>>
  /\ pm_fut = <<>>
  /\ pm_results = <<>>
  /\ pm_order = <<>>
  /\ pm_exc = FALSE
  /\ pm_nthreads = 0
  /\ pm_ret = [set |-> FALSE, val |-> <<>>]
  /\ pm_log = <<>>

\* (mutant) the guard with strict comparisons: a cap of 1 goes to the pool.
SequentialPathStrict(items, max_workers) == max_workers < 1 \/ Len(items) < 1

\* if max_workers <= 1 or len(items) <= 1: the comprehension runs in the caller.
SequentialPath(items, max_workers) == max_workers <= 1 \/ Len(items) <= 1

\* Entry of _parallel_map(items, func, max_workers).
ParallelMapCall(items, max_workers) ==
  /\ pm_pc = "idle"
  /\ pm_items' = items
  /\ pm_workers' = max_workers
  /\ pm_next' = 1
  /\ pm_status' = [i \in 1..Len(items) |-> "new"]
  /\ pm_fut' = [i \in 1..Len(items) |-> None]
  /\ pm_order' = <<>>
  /\ pm_exc' = FALSE
  /\ pm_nthreads' = 0
  /\ pm_log' = <<>>
  /\ pm_ret' = [set |-> FALSE, val |-> <<>>]
  /\ UNCHANGED inflight
  /\ IF SequentialPath(items, max_workers)
     THEN /\ pm_results' = <<>>
          /\ pm_pc' = IF Len(items) = 0 THEN "return" ELSE "seq"
     ELSE /\ pm_results' = [i \in 1..Len(items) |-> None]
          /\ pm_pc' = "submit"

\* [func(item) for item in items]: the caller starts the next item ...
SeqStart ==
  /\ pm_pc = "seq"
  /\ pm_next <= Len(pm_items)
  /\ pm_status[pm_next] = "new"
  /\ pm_status' = [pm_status EXCEPT ![pm_next] = "running"]
  /\ pm_log' = Append(pm_log, [idx |-> pm_next, by |-> "caller"])
  /\ inflight' = inflight \cup {[stage |-> stage, idx |-> pm_next]}
  /\ UNCHANGED <<pm_pc, pm_items, pm_workers, pm_next, pm_fut, pm_results,
                 pm_order, pm_exc, pm_nthreads, pm_ret>>

\* ... and the item returns (its value is appended) or raises (the
\* comprehension is abandoned and the exception leaves _parallel_map).
SeqFinish(ok) ==
  /\ pm_pc = "seq"
  /\ pm_next <= Len(pm_items)
  /\ pm_status[pm_next] = "running"
  /\ pm_status' = [pm_status EXCEPT ![pm_next] = IF ok THEN "ok" ELSE "err"]
  /\ inflight' = inflight \ {[stage |-> stage, idx |-> pm_next]}
  /\ IF ok
     THEN /\ pm_results' = Append(pm_results, func(pm_items[pm_next]))
          /\ pm_next' = pm_next + 1
          /\ pm_pc' = IF pm_next = Len(pm_items) THEN "return" ELSE "seq"
          /\ pm_exc' = pm_exc
     ELSE /\ pm_exc' = TRUE
          /\ pm_pc' = "raised"
          /\ UNCHANGED <<pm_results, pm_next>>
  /\ UNCHANGED <<pm_items, pm_workers, pm_fut, pm_order, pm_nthreads,
                 pm_ret, pm_log>>

\* (mutant) a pool that adds a thread for every submitted item.
ThreadsAfterSubmitUncapped(nthreads, max_workers) == nthreads + 1

\* ThreadPoolExecutor(max_workers=max_workers): a submit adds a worker thread
\* only while fewer than max_workers exist.
ThreadsAfterSubmit(nthreads, max_workers) ==
  IF nthreads < max_workers THEN nthreads + 1 ELSE nthreads

\* executor.submit(func, item) for the next item of the enumeration: the work
\* item is queued and a worker thread is added while fewer than max_workers
\* exist.  After the last submit the caller enters as_completed.
Submit ==
  /\ pm_pc = "submit"
  /\ pm_next <= Len(pm_items)
  /\ pm_status' = [pm_status EXCEPT ![pm_next] = "queued"]
  /\ pm_nthreads' = ThreadsAfterSubmit(pm_nthreads, pm_workers)
  /\ pm_next' = pm_next + 1
  /\ pm_pc' = IF pm_next = Len(pm_items) THEN "collect" ELSE "submit"
  /\ UNCHANGED inflight
  /\ UNCHANGED <<pm_items, pm_workers, pm_fut, pm_results, pm_order,
                 pm_exc, pm_ret, pm_log>>

\* A free worker thread takes the oldest queued work item and calls func.
WorkerStart(i) ==
  /\ pm_pc \in {"submit", "collect", "shutdown"}
  /\ i \in Queued
  /\ \A j \in Queued : i <= j
  /\ Cardinality(Running) < pm_nthreads
  /\ pm_status' = [pm_status EXCEPT ![i] = "running"]
  /\ pm_log' = Append(pm_log, [idx |-> i, by |-> "worker"])
  /\ inflight' = inflight \cup {[stage |-> stage, idx |-> i]}
  /\ UNCHANGED <<pm_pc, pm_items, pm_workers, pm_next, pm_fut, pm_results,
                 pm_order, pm_exc, pm_nthreads, pm_ret>>

\* func returns or raises in the worker: the future holds the value or the
\* exception.
WorkerFinish(i, ok) ==
  /\ pm_pc \in {"submit", "collect", "shutdown"}
  /\ i \in Running
  /\ pm_status' = [pm_status EXCEPT ![i] = IF ok THEN "ok" ELSE "err"]
  /\ pm_fut' = [pm_fut EXCEPT ![i] = IF ok THEN func(pm_items[i]) ELSE None]
  /\ inflight' = inflight \ {[stage |-> stage, idx |-> i]}
  /\ UNCHANGED <<pm_pc, pm_items, pm_workers, pm_next, pm_results,
                 pm_order, pm_exc, pm_nthreads, pm_ret, pm_log>>

\* (mutant) the result goes to the first free slot, i.e. in completion order.
StoreResultInCompletionOrder(results, idx, value) ==
  LET free == {k \in 1..Len(results) : results[k] = None}
      slot == CHOOSE k \in free : \A j \in free : k <= j
  IN  [results EXCEPT ![slot] = value]

\* results[idx] = future.result() for a future as_completed yields.
StoreResult(results, idx, value) == [results EXCEPT ![idx] = value]

\* One iteration of `for future in as_completed(future_to_index)`: any
\* finished future not yet yielded.  future.result() re-raises the request's
\* exception, which leaves the loop and the with block.
Collect(i) ==
  /\ pm_pc = "collect"
  /\ i \in Finished \ Collected
  /\ pm_order' = Append(pm_order, i)
  /\ IF pm_status[i] = "ok"
     THEN /\ pm_results' = StoreResult(pm_results, i, pm_fut[i])
          /\ pm_exc' = pm_exc
          /\ pm_pc' = IF Len(pm_order') = Len(pm_items) THEN "shutdown" ELSE "collect"
     ELSE /\ pm_exc' = TRUE
          /\ pm_pc' = "shutdown"
          /\ pm_results' = pm_results
  /\ UNCHANGED inflight
  /\ UNCHANGED <<pm_items, pm_workers, pm_next, pm_status, pm_fut,
                 pm_nthreads, pm_ret, pm_log>>

\* (mutant) the exception of a request is swallowed and the list returned.
AfterWithSwallowed(exc) == "return"

\* Where control goes when the with block is left: the pending exception of
\* future.result() propagates to the caller, otherwise `return results`.
AfterWith(exc) == IF exc THEN "raised" ELSE "return"

\* (mutant) shutdown(cancel_futures=True): the queued work items are dropped
\* and only the running ones are waited for.
PendingAtExitCancelled(queued, running) == running

\* The work items ThreadPoolExecutor.__exit__ waits for: shutdown(wait=True)
\* cancels nothing, so the workers drain the queue before they are joined.
PendingAtExit(queued, running) == queued \cup running

\* ThreadPoolExecutor.__exit__: shutdown(wait=True) joins the workers, which
\* first drain the queue; only then is the with block left.
Shutdown ==
  /\ pm_pc = "shutdown"
  /\ PendingAtExit(Queued, Running) = {}
  /\ pm_pc' = AfterWith(pm_exc)
  /\ UNCHANGED inflight
  /\ UNCHANGED <<pm_items, pm_workers, pm_next, pm_status, pm_fut, pm_results,
                 pm_order, pm_exc, pm_nthreads, pm_ret, pm_log>>

\* What `return` hands to the caller.
ReturnValue(results) == [set |-> TRUE, val |-> results]

\* return [...] / return results
Return ==
  /\ pm_pc = "return"
  /\ pm_ret' = ReturnValue(pm_results)
  /\ pm_pc' = "returned"
  /\ UNCHANGED inflight
  /\ UNCHANGED <<pm_items, pm_workers, pm_next, pm_status, pm_fut, pm_results,
                 pm_order, pm_exc, pm_nthreads, pm_log>>

SeqStartStep == SeqStart /\ UNCHANGED notPM
SeqFinishAny ==
  /\ \E ok \in BOOLEAN : SeqFinish(ok)
  /\ \E payload \in vlm_answers :
       known_entities' = EntitiesAfterRun(known_entities, payload)
  /\ UNCHANGED notFunc
SubmitStep == Submit /\ UNCHANGED notPM
WorkerStartAny == (\E i \in 1..MaxItems : WorkerStart(i)) /\ UNCHANGED notPM
WorkerFinishAny ==
  /\ \E i \in 1..MaxItems, ok \in BOOLEAN : WorkerFinish(i, ok)
  /\ \E payload \in vlm_answers :
       known_entities' = EntitiesAfterRun(known_entities, payload)
  /\ UNCHANGED notFunc
CollectAny == (\E i \in 1..MaxItems : Collect(i)) /\ UNCHANGED notPM
ShutdownStep == Shutdown /\ UNCHANGED notPM
ReturnStep == Return /\ UNCHANGED notPM

PMStep ==
  \/ SeqStartStep
  \/ SeqFinishAny
  \/ SubmitStep
  \/ WorkerStartAny
  \/ WorkerFinishAny
  \/ CollectAny
  \/ ShutdownStep
  \/ ReturnStep

\* ============================================ analyze_video: keyframe scan
\* DIFF_THRESHOLD (ACTION_DIFF_THRESHOLD, default 0.12), in hundredths.
DIFF_THRESHOLD == 12
\* prev_signature = None
NoSignature == -1
\* last_caption_time = -999.0
InitialLastCaptionTime == -9990000
\* last_caption_id = None
NoCaptionId == -1

\* The values a frame signature takes here (mean intensity, in hundredths).
SigVals == {0, 10, 20, 50}
FrameLists == SeqsUpTo(SigVals, MaxFrames)

\* FPS, MIN_KEYFRAME_GAP and MAX_KEYFRAME_GAP as the environment may set them;
\* the defaults are 2, 0.5 s and 6 s.
FpsVals == {2, 3}
MinGapVals == {5000, 10000}
MaxGapVals == {7000, 10000, 60000}
Configs ==
  [fps : FpsVals, min_gap : MinGapVals, max_gap : MaxGapVals]
DefaultConfig == [fps |-> 2, min_gap |-> 5000, max_gap |-> 60000]

\* What ffprobe may report as the duration.
Durations == {0, 9000, 14996, 20000}

\* The 10 s scenario: 20 frames at 2 fps, all alike except frame 15.
ScenarioFrames == [i \in 1..20 |-> IF i = 16 THEN 50 ELSE 0]
ScenarioDuration == 100000

\* timestamp = index / FPS
Timestamp(idx, fps) == (idx * Second) \div fps

\* _diff_score(a, b): mean(|a - b|)
DiffScore(a, b) == Abs(a - b)

\* (mutant) the max-gap clause is missing.
NeedsUpdateNoMaxGap(prev, signature, timestamp, last_time, c) ==
  IF prev = NoSignature THEN TRUE
  ELSE DiffScore(signature, prev) >= DIFF_THRESHOLD /\ timestamp - last_time >= c.min_gap

\* (mutant) the min-gap test is missing.
NeedsUpdateNoMinGap(prev, signature, timestamp, last_time, c) ==
  IF prev = NoSignature THEN TRUE
  ELSE \/ DiffScore(signature, prev) >= DIFF_THRESHOLD
       \/ timestamp - last_time >= c.max_gap

\* (mutant) the first frame gets no special treatment.
NeedsUpdateFirstNotForced(prev, signature, timestamp, last_time, c) ==
  /\ prev # NoSignature
  /\ \/ (DiffScore(signature, prev) >= DIFF_THRESHOLD /\ timestamp - last_time >= c.min_gap)
     \/ timestamp - last_time >= c.max_gap

\* needs_update of the scan's body.
NeedsUpdate(prev, signature, timestamp, last_time, c) ==
  IF prev = NoSignature THEN TRUE
  ELSE LET diff == DiffScore(signature, prev)
           since_last == timestamp - last_time
       IN  \/ (diff >= DIFF_THRESHOLD /\ since_last >= c.min_gap)
           \/ since_last >= c.max_gap

\* (mutant) the event is closed at the unrounded timestamp.
EventUnrounded(t_start, t_end, caption_id) ==
  [t_start |-> Round3(t_start), t_end |-> t_end, caption_id |-> caption_id]

\* (mutant) the event carries the id of the caption that closes it.
EventOfClosingCaption(t_start, t_end, caption_id) ==
  [t_start |-> Round3(t_start), t_end |-> Round3(t_end), caption_id |-> caption_id + 1]

\* {"t_start": round(segment_start, 3), "t_end": round(..., 3), "caption_id": ...}
Event(t_start, t_end, caption_id) ==
  [t_start |-> Round3(t_start), t_end |-> Round3(t_end), caption_id |-> caption_id]

\* (mutant) the signature is kept from the last keyframe.
PrevSignatureOfLastKeyframe(prev, signature, needs_update) ==
  IF needs_update THEN signature ELSE prev

\* prev_signature = signature, the last statement of both branches of
\* `if needs_update`.
PrevSignatureAfterFrame(prev, signature, needs_update) == signature

\* The scan's variables in a state in which no scan runs.
KFIdle ==
  /\ kf_pc = "off"
  /\ index = 0
  /\ prev_signature = NoSignature
  /\ last_caption_time = InitialLastCaptionTime
  /\ last_caption_id = NoCaptionId
  /\ segment_start = 0
  /\ captions = <<>>
  /\ events = <<>>
  /\ selected = <<>>
  /\ known_entities = <<>>
  /\ caption_requests = <<>>

InIdle == duration = 0 /\ frames = <<>> /\ cfg = DefaultConfig

\* The state before `for index, frame_path in enumerate(frame_files)`.
KFStart ==
  /\ kf_pc = "scan"
  /\ index = 0
  /\ prev_signature = NoSignature
  /\ last_caption_time = InitialLastCaptionTime
  /\ last_caption_id = NoCaptionId
  /\ segment_start = 0
  /\ captions = <<>>
  /\ events = <<>>
  /\ selected = <<>>
  /\ known_entities = <<>>
  /\ caption_requests = <<>>

\* One iteration of the scan, for frame `index`.  A frame that needs an update
\* is sent to _caption_frame with the entity list as it stands, which returns
\* a payload or raises; `selected` records the indices of the frames selected
\* so far and caption_requests the entity list each request was given.
ScanFrame(ok, payload) ==
  /\ kf_pc = "scan"
  /\ index < Len(frames)
  /\ LET timestamp == Timestamp(index, cfg.fps)
         signature == frames[index + 1]
         needs_update ==
           NeedsUpdate(prev_signature, signature, timestamp, last_caption_time, cfg)
         caption_id == Len(captions)
     IN  IF needs_update /\ ~ok
         THEN /\ kf_pc' = "failed"
              /\ caption_requests' = Append(caption_requests, known_entities)
              /\ UNCHANGED <<index, prev_signature, last_caption_time,
                             last_caption_id, segment_start, captions, events,
                             selected, known_entities>>
         ELSE /\ kf_pc' = "scan"
              /\ index' = index + 1
              /\ prev_signature' = PrevSignatureAfterFrame(prev_signature, signature, needs_update)
              /\ IF needs_update
                 THEN /\ caption_requests' = Append(caption_requests, known_entities)
                      /\ captions' =
                           Append(captions,
                                  [id |-> caption_id, t |-> Round3(timestamp),
                                   people |-> NormalizeCaptionPayload(payload).people,
                                   objects |-> NormalizeCaptionPayload(payload).objects])
                      /\ known_entities' = EntitiesAfterCaption(known_entities, payload)
                      /\ events' =
                           IF last_caption_id # NoCaptionId
                           THEN Append(events, Event(segment_start, timestamp, last_caption_id))
                           ELSE events
                      /\ segment_start' = timestamp
                      /\ last_caption_id' = caption_id
                      /\ last_caption_time' = timestamp
                      /\ selected' = Append(selected, index)
                 ELSE UNCHANGED <<captions, events, segment_start, last_caption_id,
                                  last_caption_time, selected, known_entities,
                                  caption_requests>>

\* After the loop: the last event is closed at the duration.
CloseFinalEvent ==
  /\ kf_pc = "scan"
  /\ index = Len(frames)
  /\ events' =
       IF last_caption_id # NoCaptionId
       THEN Append(events, Event(segment_start, duration, last_caption_id))
       ELSE events
  /\ kf_pc' = "done"
  /\ UNCHANGED <<index, prev_signature, last_caption_time, last_caption_id,
                 segment_start, captions, selected, known_entities,
                 caption_requests>>

\* ================================== per-second ticks, justification chunker
\* PER_SECOND_FPS and JUSTIFY_CHUNK_SEC as the environment may set them (the
\* defaults are 1 and 60 s); the chunk length is in the model's time unit.
PerSecondFpsVals == {0, 1, 2, 4}
ChunkSecVals == {0, 20000, 600000}
JConfigs == [per_second_fps : PerSecondFpsVals, chunk_sec : ChunkSecVals]
DefaultJConfig == [per_second_fps |-> 1, chunk_sec |-> 600000]

\* The durations and frame counts of the videos the chunker is run on.
JTDurations == {0, 10000, 25000, 30000}
FrameCounts == {0, 2, 5, 7}

\* int(round(x)) of the quotient num / den (den > 0, num >= 0): the nearest
\* integer, a tie going to the even one.
RoundDiv(num, den) ==
  LET q == num \div den
      r2 == 2 * (num % den)
  IN  IF r2 < den THEN q
      ELSE IF r2 > den THEN q + 1
      ELSE IF q % 2 = 0 THEN q ELSE q + 1

\* _frame_index_for_timestamp(timestamp, frame_count)
FrameIndexForTimestamp(timestamp, frame_count, fps) ==
  IF frame_count <= 0 THEN 0
  ELSE Max(0, Min(frame_count - 1, RoundDiv(timestamp * fps, Second)))

\* per_second_times: round(t, 3) for t = 0, step, 2 step, ... <= duration
RECURSIVE TickTimes(_, _, _)
TickTimes(t, step, dur) ==
  IF t > dur THEN <<>> ELSE <<Round3(t)>> \o TickTimes(t + step, step, dur)

\* (mutant) every tick makes a request.
RECURSIVE RequestEveryTick(_, _, _, _)
RequestEveryTick(timestamps, last, frame_count, fps) ==
  IF timestamps = <<>> THEN <<>>
  ELSE <<[t |-> Head(timestamps),
          index |-> FrameIndexForTimestamp(Head(timestamps), frame_count, fps)]>>
         \o RequestEveryTick(Tail(timestamps), last, frame_count, fps)

\* The requests loop of _describe_frames_at_times and of
\* _caption_frames_at_times (the same statements): a tick whose frame index
\* equals the index of the tick before it is skipped, the others append
\* (timestamp, frame_files[index]).  `last` is last_index (-1 for None).
RECURSIVE CollapseTicks(_, _, _, _)
CollapseTicks(timestamps, last, frame_count, fps) ==
  IF timestamps = <<>> THEN <<>>
  ELSE LET idx == FrameIndexForTimestamp(Head(timestamps), frame_count, fps)
       IN  IF idx = last
           THEN CollapseTicks(Tail(timestamps), last, frame_count, fps)
           ELSE <<[t |-> Head(timestamps), index |-> idx]>>
                  \o CollapseTicks(Tail(timestamps), idx, frame_count, fps)

\* The requests of _describe_frames_at_times(frame_files, timestamps, ...):
\* none when there are no frames or no timestamps.
DescribeRequests(timestamps, frame_count, fps) ==
  IF frame_count = 0 \/ timestamps = <<>> THEN <<>>
  ELSE CollapseTicks(timestamps, -1, frame_count, fps)

\* per_second_times of analyze_video.
PerSecondTimes(dur, frame_count, per_second_fps) ==
  IF per_second_fps > 0 /\ frame_count > 0
  THEN TickTimes(0, Second \div per_second_fps, dur)
  ELSE <<>>

\* _run of _describe_frames_at_times: {"t": round(t_value, 3), ...}
RunDescribe(request) == [t |-> Round3(request.t)]

\* The justification texts of a response, and str(...).strip() of each.
JustTexts == {"why", " "}
Strip(text) == IF text = " " THEN "" ELSE text

\* The items of a parsed response.  An item is a JSON object or something
\* else (object); an object carries a t or none (has_t); a t is a number in
\* float range (t_form "number", value t in tenths of a millisecond), a value
\* float() rejects with TypeError or ValueError such as "soon" or null
\* ("text"), or an integer literal beyond float range such as 10**400, for
\* which float() raises OverflowError ("huge").
ResponseTimes == {9990, 9996, 10000}
ResponseItems ==
  [object : {TRUE}, has_t : {TRUE}, t_form : {"number"}, t : ResponseTimes,
   justification : JustTexts]
    \cup [object : {TRUE}, has_t : {FALSE}, t_form : {"number"}, t : {0},
          justification : JustTexts]
    \cup [object : {TRUE}, has_t : {TRUE}, t_form : {"text", "huge"}, t : {0},
          justification : {"why"}]
    \cup [object : {FALSE}, has_t : {FALSE}, t_form : {"number"}, t : {0},
          justification : {"why"}]
Responses == SeqsUpTo(ResponseItems, MaxResponseItems)

\* The content of a response: a JSON list of items, text no candidate of
\* which parses, or a JSON object without items, justifications or timeline.
RawResponses ==
  [shape : {"list"}, items : Responses]
    \cup [shape : {"text", "object"}, items : {<<>>}]
EmptyResponse == [shape |-> "list", items |-> <<>>]

\* _parse_json_list(content): the list, [] for anything else.
ParseJsonList(response) ==
  IF response.shape = "list" THEN response.items ELSE <<>>

\* The items the loop reads: `if not isinstance(item, dict): continue`, and
\* `except (TypeError, ValueError): continue` around float(item.get("t", 0.0)).
Considered(item) == item.object /\ (item.has_t => item.t_form # "text")

\* float(item.get("t", 0.0)) raises an exception the except clause does not
\* name.
ItemRaises(item) == item.object /\ item.has_t /\ item.t_form = "huge"
ItemsRaise(items) == \E k \in 1..Len(items) : ItemRaises(items[k])

\* (mutant) the item's t taken to the nearest whole second.
ItemTimeNearestSecond(item) ==
  Second * RoundDiv(IF item.has_t THEN item.t ELSE 0, Second)

\* round(float(item.get("t", 0.0)), 3)
ItemTime(item) == Round3(IF item.has_t THEN item.t ELSE 0)

\* `t_value not in allowed` is what drops an item.
Accepts(item, allowed) == ItemTime(item) \in allowed

\* justification_map.get(t_value, ""): the text of the last accepted item for
\* t_value, "" when there is none.
JustificationFor(t_value, items, allowed) ==
  LET hits == {k \in 1..Len(items) :
                 /\ Considered(items[k])
                 /\ Accepts(items[k], allowed)
                 /\ ItemTime(items[k]) = t_value}
  IN  IF hits = {} THEN ""
      ELSE Strip(items[CHOOSE k \in hits : \A j \in hits : j <= k].justification)

\* What _justify_chunk returns for `seconds` and the parsed response `items`.
JustifyChunkResult(seconds, items) ==
  LET allowed == {Round3(seconds[i].t) : i \in 1..Len(seconds)}
  IN  [i \in 1..Len(seconds) |->
         [t |-> Round3(seconds[i].t),
          justification |-> JustificationFor(Round3(seconds[i].t), items, allowed)]]

\* (mutant) the chunk takes the seconds of [chunk_start, chunk_end).
InChunkHalfOpen(t_value, chunk_start, chunk_end) ==
  chunk_start <= t_value /\ t_value < chunk_end

\* chunk_start <= s["t"] <= chunk_end
InChunk(t_value, chunk_start, chunk_end) ==
  chunk_start <= t_value /\ t_value <= chunk_end

\* seconds = [s for s in per_second_descriptions if ...]
SecondsOfChunk(descriptions, chunk_start, chunk_end) ==
  SelectSeq(descriptions, LAMBDA d : InChunk(d.t, chunk_start, chunk_end))

\* chunk = max(1.0, float(JUSTIFY_CHUNK_SEC))
ChunkLength(c) == Max(Second, c.chunk_sec)

NoChunk ==
  [seconds |-> <<>>, items |-> <<>>, output |-> <<>>, asked |-> FALSE,
   raised |-> FALSE]

JTIdle ==
  /\ jcfg = DefaultJConfig
  /\ per_second_times = <<>>
  /\ describe_requests = <<>>
  /\ per_second_descriptions = <<>>
  /\ jt_pc = "off"
  /\ jt_t = 0
  /\ justification_timeline = <<>>
  /\ last_chunk = NoChunk

\* The per-second stage of analyze_video: the ticks, the requests of
\* _describe_frames_at_times and, when _parallel_map returns (ok), one
\* description per request in request order; a raising request ends the run.
DescribePerSecond(ok) ==
  /\ jt_pc = "ticks"
  /\ LET times == PerSecondTimes(duration, Len(frames), jcfg.per_second_fps)
         reqs == DescribeRequests(times, Len(frames), cfg.fps)
     IN  /\ per_second_times' = times
         /\ describe_requests' = reqs
         /\ IF ok \/ reqs = <<>>
            THEN /\ ok
                 /\ per_second_descriptions' = [i \in 1..Len(reqs) |-> RunDescribe(reqs[i])]
                 /\ jt_pc' = "call"
            ELSE /\ per_second_descriptions' = <<>>
                 /\ jt_pc' = "failed"
  /\ UNCHANGED <<jcfg, jt_t, justification_timeline, last_chunk>>

\* if not per_second_descriptions: return []
JustifyNothing ==
  /\ jt_pc = "call"
  /\ per_second_descriptions = <<>>
  /\ jt_pc' = "done"
  /\ UNCHANGED <<jcfg, per_second_times, describe_requests,
                 per_second_descriptions, jt_t, justification_timeline,
                 last_chunk>>

\* timeline = []; chunk = ...; t = 0.0
JustifyBegin ==
  /\ jt_pc = "call"
  /\ per_second_descriptions # <<>>
  /\ jt_pc' = "loop"
  /\ jt_t' = 0
  /\ justification_timeline' = <<>>
  /\ UNCHANGED <<jcfg, per_second_times, describe_requests, per_second_descriptions, last_chunk>>

\* One iteration of `while t <= duration`: the chunk's seconds are gathered,
\* _justify_chunk returns [] for none and otherwise asks the model, whose
\* request raises or whose response parses to `items`; reading the items
\* raises or the chunk's entries are appended and t advances by the chunk
\* length.
JustifyChunk(ok, response) ==
  /\ jt_pc = "loop"
  /\ jt_t <= duration
  /\ LET chunk_start == jt_t
         chunk_end == Min(duration, jt_t + ChunkLength(jcfg))
         seconds == SecondsOfChunk(per_second_descriptions, chunk_start, chunk_end)
         items == ParseJsonList(response)
     IN  IF seconds = <<>>
         THEN /\ response = EmptyResponse
              /\ ok
              /\ last_chunk' = NoChunk
              /\ jt_t' = jt_t + ChunkLength(jcfg)
              /\ UNCHANGED <<jt_pc, justification_timeline>>
         ELSE IF ~ok
         THEN /\ response = EmptyResponse
              /\ jt_pc' = "failed"
              /\ UNCHANGED <<jt_t, justification_timeline, last_chunk>>
         ELSE IF ItemsRaise(items)
         THEN /\ jt_pc' = "failed"
              /\ last_chunk' = [seconds |-> seconds, items |-> items,
                                output |-> <<>>, asked |-> FALSE, raised |-> TRUE]
              /\ UNCHANGED <<jt_t, justification_timeline>>
         ELSE /\ last_chunk' = [seconds |-> seconds, items |-> items,
                                output |-> JustifyChunkResult(seconds, items),
                                asked |-> TRUE, raised |-> FALSE]
              /\ justification_timeline' =
                   justification_timeline \o JustifyChunkResult(seconds, items)
              /\ jt_t' = jt_t + ChunkLength(jcfg)
              /\ UNCHANGED jt_pc
  /\ UNCHANGED <<jcfg, per_second_times, describe_requests, per_second_descriptions>>

\* return timeline
JustifyEnd ==
  /\ jt_pc = "loop"
  /\ jt_t > duration
  /\ jt_pc' = "done"
  /\ UNCHANGED <<jcfg, per_second_times, describe_requests,
                 per_second_descriptions, jt_t, justification_timeline,
                 last_chunk>>

\* ==================================================== the window aggregator
\* BG_UPDATE_SEC (tick stride, default 5 s) and BG_WINDOW_SEC (trailing
\* window, default 10 s) as the environment may set them.
BgUpdateVals == {5000, 10000}
BgWindowVals == {5000, 10000}
BgConfigs == [update_sec : BgUpdateVals, window_sec : BgWindowVals]
DefaultBgConfig == [update_sec |-> 50000, window_sec |-> 100000]

\* The durations the aggregator is run on.
BgDurations == {0, 10000, 20000, 30000}

\* The captions the scan may have left: ids in list order, the first at t = 0.
CaptionTimeLists == {<<>>, <<0>>, <<0, 5000>>, <<0, 15000>>, <<0, 10000, 15000>>}
CaptionsAt(times) ==
  [i \in 1..Len(times) |->
     [id |-> i - 1, t |-> times[i], people |-> <<>>, objects |-> <<>>]]

\* What _transcribe_audio may return: nothing, the flat transcript as one
\* segment spanning [0, 0], timed segments, overlapping ones, and two segments
\* that are equal as dictionaries.
AudioSegment(start, end, text) == [start |-> start, end |-> end, text |-> text]
AudioLists ==
  {<<>>,
   <<AudioSegment(0, 0, "hi")>>,
   <<AudioSegment(0, 8000, "hi")>>,
   <<AudioSegment(0, 8000, "hi"), AudioSegment(12000, 20000, "yo")>>,
   <<AudioSegment(0, 20000, "hi"), AudioSegment(5000, 8000, "yo")>>,
   <<AudioSegment(12000, 14000, "hi"), AudioSegment(12000, 14000, "hi")>>}

\* The narrations the summarizer may answer, before .strip().
RawSummaries == {"", " ", "s1", "s2"}

\* window_start = max(0.0, t - BG_WINDOW_SEC)
WindowStart(t, c) == Max(0, t - c.window_sec)

\* window_captions = [c for c in captions if window_start <= c["t"] <= t]
WindowCaptions(t, c) ==
  SelectSeq(captions, LAMBDA x : WindowStart(t, c) <= x.t /\ x.t <= t)

\* window_audio = [s for s in audio_segments
\*                 if s["end"] >= window_start and s["start"] <= t]
WindowAudio(t, c) ==
  SelectSeq(audio_segments, LAMBDA x : x.end >= WindowStart(t, c) /\ x.start <= t)

\* list.index(x): the position (from 0) of the first element equal to x.
IndexOf(seq, x) == (CHOOSE i \in 1..Len(seq) : seq[i] = x /\ \A j \in 1..(i - 1) : seq[j] # x) - 1

\* newest_caption_id = window_captions[-1]["id"] if window_captions else -1
NewestCaptionId(t, c) ==
  LET w == WindowCaptions(t, c) IN IF w = <<>> THEN -1 ELSE w[Len(w)].id

\* newest_audio_idx = audio_segments.index(window_audio[-1]) if window_audio else -1
NewestAudioIdx(t, c) ==
  LET w == WindowAudio(t, c)
  IN  IF w = <<>> THEN -1 ELSE IndexOf(audio_segments, w[Len(w)])

\* (mutant) only the caption marker is compared.
PairChangedCaptionOnly(caption_id, audio_idx, caption_marker, audio_marker) ==
  caption_id # caption_marker

\* (mutant) every tick counts as changed.
PairChangedAlways(caption_id, audio_idx, caption_marker, audio_marker) == TRUE

\* newest_caption_id != last_caption_marker or newest_audio_idx != last_audio_marker
PairChanged(caption_id, audio_idx, caption_marker, audio_marker) ==
  caption_id # caption_marker \/ audio_idx # audio_marker

\* (mutant) the update is appended whatever the narration.
UpdatesAfterCallAlways(updates, t, summary) ==
  Append(updates, [t |-> Round3(t), narration |-> summary])

\* if summary: background_updates.append({"t": round(t, 3), "narration": summary})
UpdatesAfterCall(updates, t, summary) ==
  IF summary # "" THEN Append(updates, [t |-> Round3(t), narration |-> summary])
  ELSE updates

\* (mutant) the aggregator runs whatever the tracks hold.
AggregatorRunsAlways(caps, audio) == TRUE

\* if captions or audio_segments:
AggregatorRuns(caps, audio) == caps # <<>> \/ audio # <<>>

\* The positions (from 0) of the audio segments of the window.
WindowAudioPositions(t, c) ==
  {i - 1 : i \in {j \in 1..Len(audio_segments) :
                    audio_segments[j].end >= WindowStart(t, c)
                      /\ audio_segments[j].start <= t}}

\* What bg_log keeps of a tick: its time, the pair computed, whether the
\* summarizer was called, the previous_summary the call was given
\* (state.get("summary", "")) and what it answered, and what the window held.
TickRecord(t, c, called, summary) ==
  [t |-> t,
   previous_summary |-> state.summary,
   caption_id |-> NewestCaptionId(t, c),
   audio_idx |-> NewestAudioIdx(t, c),
   called |-> called,
   summary |-> summary,
   window_captions |-> {WindowCaptions(t, c)[i].id : i \in 1..Len(WindowCaptions(t, c))},
   window_audio |-> WindowAudioPositions(t, c)]

EmptyState == [summary |-> "", entities |-> <<>>]

\* (mutant) an empty narration leaves the state as it was.
StateAfterCallKeepingSummary(st, summary) ==
  IF summary = "" THEN st ELSE [summary |-> summary, entities |-> st.entities]

\* The state _summarize_background returns:
\* {"summary": summary, "entities": state.get("entities", [])}
StateAfterCall(st, summary) == [summary |-> summary, entities |-> st.entities]

\* bg_log keeps the first MaxTicks ticks of a run.
MaxTicks == 8
LogTick(log, record) == IF Len(log) < MaxTicks THEN Append(log, record) ELSE log

\* The aggregator's variables in a state in which it has not been reached.
BGIdle ==
  /\ bgcfg = DefaultBgConfig
  /\ audio_segments = <<>>
  /\ bg_pc = "off"
  /\ bg_t = 0
  /\ state = EmptyState
  /\ last_caption_marker = -1
  /\ last_audio_marker = -1
  /\ background_updates = <<>>
  /\ bg_log = <<>>

\* background_updates = []; state = {...}; the markers are -1; then the guard
\* `if captions or audio_segments` lets the loop start with t = 0.0 or skips it.
BgBegin ==
  /\ bg_pc = "call"
  /\ background_updates' = <<>>
  /\ state' = [summary |-> "", entities |-> known_entities]
  /\ last_caption_marker' = -1
  /\ last_audio_marker' = -1
  /\ bg_t' = 0
  /\ bg_pc' = IF AggregatorRuns(captions, audio_segments) THEN "loop" ELSE "done"
  /\ UNCHANGED <<bgcfg, audio_segments, bg_log, known_entities>>

\* One tick of `while t <= duration`.  When the pair changed the summarizer is
\* called; it raises (ok = FALSE) or answers raw_summary, which is stripped.
BgTick(ok, raw_summary) ==
  /\ bg_pc = "loop"
  /\ bg_t <= duration
  /\ LET newest_caption_id == NewestCaptionId(bg_t, bgcfg)
         newest_audio_idx == NewestAudioIdx(bg_t, bgcfg)
         summary == Strip(raw_summary)
     IN  IF PairChanged(newest_caption_id, newest_audio_idx,
                        last_caption_marker, last_audio_marker)
         THEN IF ok
              THEN /\ state' = StateAfterCall(state, summary)
                   /\ known_entities' = EntitiesAfterRun(known_entities, NoEntitiesPayload)
                   /\ background_updates' = UpdatesAfterCall(background_updates, bg_t, summary)
                   /\ last_caption_marker' = newest_caption_id
                   /\ last_audio_marker' = newest_audio_idx
                   /\ bg_t' = bg_t + bgcfg.update_sec
                   /\ bg_log' = LogTick(bg_log, TickRecord(bg_t, bgcfg, TRUE, summary))
                   /\ UNCHANGED bg_pc
              ELSE /\ raw_summary = ""
                   /\ bg_pc' = "failed"
                   /\ bg_log' = LogTick(bg_log, TickRecord(bg_t, bgcfg, TRUE, ""))
                   /\ UNCHANGED <<state, known_entities, background_updates,
                                  last_caption_marker, last_audio_marker, bg_t>>
         ELSE /\ ok
              /\ raw_summary = ""
              /\ bg_t' = bg_t + bgcfg.update_sec
              /\ bg_log' = LogTick(bg_log, TickRecord(bg_t, bgcfg, FALSE, ""))
              /\ UNCHANGED <<bg_pc, state, known_entities, background_updates,
                             last_caption_marker, last_audio_marker>>
  /\ UNCHANGED <<bgcfg, audio_segments>>

\* The loop ends when t has passed the duration.
BgEnd ==
  /\ bg_pc = "loop"
  /\ bg_t > duration
  /\ bg_pc' = "done"
  /\ UNCHANGED <<bgcfg, audio_segments, bg_t, state, last_caption_marker,
                 last_audio_marker, background_updates, bg_log, known_entities>>

\* ======================================================= _detect_scene_cuts
\* The pts_time values the scene filter may print, in tenths of a
\* millisecond, and the streams of them (in the order of the stderr lines).
MaxPts == 3
PtsVals == {5000, 15012, 15013, 15016, 20000}
PtsStreams == SeqsUpTo(PtsVals, MaxPts)

\* rounded = [round(t, 3) for t in timestamps]
RoundedTimes(timestamps) == [i \in 1..Len(timestamps) |-> Round3(timestamps[i])]

\* The seen/deduped loop: a value is appended unless it was seen before.
RECURSIVE DedupedFrom(_, _)
DedupedFrom(values, deduped) ==
  IF values = <<>> THEN deduped
  ELSE IF InList(Head(values), deduped)
       THEN DedupedFrom(Tail(values), deduped)
       ELSE DedupedFrom(Tail(values), Append(deduped, Head(values)))

\* (mutant) the lines ffmpeg printed before it failed are parsed all the same.
SceneCutsDespiteFailure(process_ok, stream) ==
  DedupedFrom(RoundedTimes(stream), <<>>)

\* What _detect_scene_cuts returns: [] when ffmpeg exits with an error or
\* prints no pts_time, else the rounded values without repetition, in the
\* order of their first appearance.
SceneCutsOf(process_ok, stream) ==
  IF ~process_ok \/ stream = <<>> THEN <<>>
  ELSE DedupedFrom(RoundedTimes(stream), <<>>)

\* scene_cuts = _detect_scene_cuts(video_path)
DetectSceneCuts(process_ok, stream) ==
  /\ sc_status = "pending"
  /\ pts_stream' = stream
  /\ scene_cuts' = SceneCutsOf(process_ok, stream)
  /\ sc_status' = IF process_ok THEN "ok" ELSE "failed"

\* ============================================== scene cuts, scene segments
\* The timestamps _detect_scene_cuts may return: rounded to 3 decimals, no
\* value twice, in the order ffmpeg printed them.
CutVals == {0, 5000, 10000, 20000}
CutLists ==
  {cuts \in SeqsUpTo(CutVals, MaxCuts) :
     \A i, j \in 1..Len(cuts) : cuts[i] = cuts[j] => i = j}

\* The durations the segmentation is run on.
SegDurations == {5000, 10000, 10004, 20000}

\* sorted(S) for a set of numbers.
RECURSIVE Sorted(_)
Sorted(S) ==
  IF S = {} THEN <<>>
  ELSE LET least == CHOOSE x \in S : \A y \in S : x <= y
       IN  <<least>> \o Sorted(S \ {least})

\* scene_marks = sorted(set([0.0] + scene_cuts + [duration]))
SceneMarks(cuts, dur) ==
  Sorted({0} \cup {cuts[i] : i \in 1..Len(cuts)} \cup {dur})

\* (mutant) the marks past the duration are left out.
SegmentRequestsWithin(marks, dur) ==
  LET kept == SelectSeq(marks, LAMBDA x : x <= dur)
  IN  [idx \in 1..(Len(kept) - 1) |-> [t_start |-> kept[idx], t_end |-> kept[idx + 1]]]

\* segment_requests: one (t_start, t_end) per pair of consecutive marks, pairs
\* with t_end <= t_start skipped.
SegmentRequests(marks, dur) ==
  SelectSeq([idx \in 1..(Len(marks) - 1) |->
               [t_start |-> marks[idx], t_end |-> marks[idx + 1]]],
            LAMBDA r : ~(r.t_end <= r.t_start))

\* (mutant) the bounds are kept as they are, unrounded.
RunSegmentUnrounded(request) ==
  [t_start |-> request.t_start, t_end |-> request.t_end]

\* _run_segment: {"t_start": round(t_start, 3), "t_end": round(t_end, 3), ...}
RunSegment(request) ==
  [t_start |-> Round3(request.t_start), t_end |-> Round3(request.t_end)]

\* The segmentation's variables in a state in which it has not been reached.
SegIdle ==
  /\ pts_stream = <<>>
  /\ sc_status = "off"
  /\ scene_cuts = <<>>
  /\ segment_requests = <<>>
  /\ scene_segments = <<>>
  /\ seg_pc = "off"

\* `if frame_files:` fails: scene_segments stays [].
SegSkip ==
  /\ seg_pc = "call"
  /\ frames = <<>>
  /\ seg_pc' = "done"
  /\ UNCHANGED <<pts_stream, sc_status, scene_cuts, segment_requests, scene_segments, pmVars, inflight>>

\* The requests are built from the marks and handed to
\* _parallel_map(segment_requests, _run_segment, VLM_CONCURRENCY); request i
\* is item i of the call.
SegBuild ==
  /\ seg_pc = "call"
  /\ frames # <<>>
  /\ LET requests == SegmentRequests(SceneMarks(scene_cuts, duration), duration)
     IN  /\ segment_requests' = requests
         /\ ParallelMapCall([i \in 1..Len(requests) |-> i], concurrency)
  /\ seg_pc' = "map"
  /\ UNCHANGED <<pts_stream, sc_status, scene_cuts, scene_segments>>

\* _parallel_map has returned or raised.  Its k-th result is what _run_segment
\* made of the request func was applied to; `segment["id"] = idx` numbers the
\* results in list order.
SegAssign ==
  /\ seg_pc = "map"
  /\ pm_pc \in {"returned", "raised"}
  /\ IF pm_pc = "returned"
     THEN /\ scene_segments' =
               [k \in 1..Len(pm_ret.val) |->
                  LET done == RunSegment(segment_requests[pm_ret.val[k] - func(0)])
                  IN  [id |-> k - 1, t_start |-> done.t_start, t_end |-> done.t_end]]
          /\ seg_pc' = "done"
     ELSE /\ seg_pc' = "failed"
          /\ UNCHANGED scene_segments
  /\ pm_pc' = "idle"
  /\ pm_items' = <<>>
  /\ pm_workers' = 0
  /\ pm_next' = 1
  /\ pm_status' = <<>>
  /\ pm_fut' = <<>>
  /\ pm_results' = <<>>
  /\ pm_order' = <<>>
  /\ pm_exc' = FALSE
  /\ pm_nthreads' = 0
  /\ pm_ret' = [set |-> FALSE, val |-> <<>>]
  /\ pm_log' = <<>>
  /\ UNCHANGED <<pts_stream, sc_status, scene_cuts, segment_requests, inflight>>

\* ============================================== analyze_video: the stages
\* The default of ACTION_VLM_CONCURRENCY.
DefaultConcurrency == 4

\* What os.getenv hands to _coerce_int: a string int() accepts, or one it
\* rejects.
EnvVals ==
  {[parses |-> FALSE, n |-> 0]} \cup {[parses |-> TRUE, n |-> k] : k \in -1..MaxWorkers}

\* (mutant) the lower bound is not applied.
CoerceIntNoFloor(value, default, min_value) ==
  IF ~value.parses THEN default ELSE value.n

\* _coerce_int(value, default, min_value)
CoerceInt(value, default, min_value) ==
  IF ~value.parses THEN default ELSE Max(min_value, value.n)

\* The requests of one fan-out stage: n distinct (timestamp, frame) tuples.
StageItems(n) == [i \in 1..n |-> i]

SeqStages == {"keyframes", "background", "justify"}
MapStages == {"dense", "scene_captions", "per_second", "segments"}

\* The order of analyze_video's body.
NextStage(s) ==
  CASE s = "probe" -> "scene_cuts"
    [] s = "scene_cuts" -> "frames"
    [] s = "frames" -> "audio"
    [] s = "audio" -> "keyframes"
    [] s = "keyframes" -> "dense"
    [] s = "dense" -> "scene_captions"
    [] s = "scene_captions" -> "per_second"
    [] s = "per_second" -> "segments"
    [] s = "segments" -> "background"
    [] s = "background" -> "justify"
    [] s = "justify" -> "write"
    [] OTHER -> "done"

\* The stage variables of a state in which analyze_video is not running.
PipeIdle ==
  /\ stage = "call"
  /\ phase = "enter"
  /\ env = [parses |-> FALSE, n |-> 0]
  /\ concurrency = 0
  /\ has_frames = FALSE
  /\ has_cuts = FALSE
  /\ rq_left = 0
  /\ rq_busy = FALSE
  /\ written = 0
  /\ raised = {}
  /\ artifact = {}
  /\ completed = <<>>

\* The durations ffprobe reports in a run of the whole pipeline, and what the
\* scene detector prints in it.
PipeDurations == {0, 10000}
FewStreams == {<<>>, <<5000>>}

\* The top-level fields of the result dictionary.
ResultFields ==
  {"fps", "duration", "scene_cuts", "captions", "events", "dense_captions",
   "scene_captions", "per_second_descriptions", "scene_segments",
   "justification_timeline", "background_updates", "audio_segments"}

\* (mutant) the exception of a stage is swallowed and the body goes on.
StageAfterSwallowing(s, ok) == NextStage(s)

\* The body of analyze_video has no try statement of its own: a stage that
\* returns is followed by the next one, a stage that raises ends the run.
StageAfter(s, ok) == IF ok THEN NextStage(s) ELSE "failed"

\* `raised` collects the stages a call of which raised, `completed` lists the
\* stages that returned, in order.
RaisedAfter(set, s, ok) == IF ok THEN set ELSE set \cup {s}
CompletedAfter(done, s, ok) == IF ok THEN Append(done, s) ELSE done

\* duration = _get_duration(video_path): a failing ffprobe raises.
Probe(ok, dur) ==
  /\ stage = "probe"
  /\ duration' = IF ok THEN dur ELSE duration
  /\ stage' = StageAfter(stage, ok)
  /\ raised' = RaisedAfter(raised, stage, ok)
  /\ completed' = CompletedAfter(completed, stage, ok)
  /\ UNCHANGED <<phase, env, concurrency, has_frames, has_cuts, rq_left, rq_busy,
                 written, artifact, inflight, pmVars>>

\* scene_cuts = _detect_scene_cuts(video_path): a failing ffmpeg gives [] and
\* the body goes on.
SceneCutsStage(process_ok, stream) ==
  /\ stage = "scene_cuts"
  /\ DetectSceneCuts(process_ok, stream)
  /\ has_cuts' = (SceneCutsOf(process_ok, stream) # <<>>)
  /\ stage' = NextStage(stage)
  /\ completed' = Append(completed, stage)
  /\ UNCHANGED <<phase, env, concurrency, has_frames, rq_left, rq_busy, written,
                 raised, artifact, inflight, pmVars>>

\* _extract_frames(video_path, frames_dir); frame_files = sorted(glob)
ExtractFrames(ok, some) ==
  /\ stage = "frames"
  /\ frames' = IF ok /\ some THEN <<0>> ELSE <<>>
  /\ has_frames' = (ok /\ some)
  /\ stage' = StageAfter(stage, ok)
  /\ raised' = RaisedAfter(raised, stage, ok)
  /\ completed' = CompletedAfter(completed, stage, ok)
  /\ UNCHANGED <<phase, env, concurrency, has_cuts, rq_left, rq_busy, written,
                 artifact, inflight, pmVars>>

\* _extract_audio and _transcribe_audio (or audio_segments = [])
Audio(ok) ==
  /\ stage = "audio"
  /\ stage' = StageAfter(stage, ok)
  /\ raised' = RaisedAfter(raised, stage, ok)
  /\ completed' = CompletedAfter(completed, stage, ok)
  /\ UNCHANGED <<phase, env, concurrency, has_frames, has_cuts, rq_left, rq_busy,
                 written, artifact, inflight, pmVars>>

\* A sequential stage is entered: the keyframe scan issues one request per
\* selected frame (the first frame is always selected), the window aggregator
\* one per changed tick, the justification chunker one per non-empty chunk.
EnterSeqStage(n) ==
  /\ stage \in SeqStages
  /\ phase = "enter"
  /\ stage = "keyframes" => (n = 0 <=> ~has_frames)
  /\ rq_left' = n
  /\ phase' = "run"
  /\ UNCHANGED <<stage, env, concurrency, has_frames, has_cuts, rq_busy, written,
                 raised, artifact, completed, inflight, pmVars>>

\* The control flow issues the stage's next request and blocks on it.
RequestStart ==
  /\ stage \in SeqStages
  /\ phase = "run"
  /\ rq_left > 0
  /\ ~rq_busy
  /\ rq_busy' = TRUE
  /\ inflight' = inflight \cup {[stage |-> stage, idx |-> rq_left]}
  /\ UNCHANGED <<stage, phase, env, concurrency, has_frames, has_cuts, rq_left,
                 written, raised, artifact, completed, pmVars>>

\* The request returns, or raises and the exception leaves analyze_video.
RequestFinish(ok, payload) ==
  /\ stage \in SeqStages
  /\ rq_busy
  /\ known_entities' =
       IF stage = "keyframes" /\ ok
       THEN EntitiesAfterCaption(known_entities, payload)
       ELSE EntitiesAfterRun(known_entities, payload)
  /\ rq_busy' = FALSE
  /\ inflight' = inflight \ {[stage |-> stage, idx |-> rq_left]}
  /\ rq_left' = rq_left - 1
  /\ stage' = IF ok THEN stage ELSE "failed"
  /\ raised' = RaisedAfter(raised, stage, ok)
  /\ UNCHANGED <<phase, env, concurrency, has_frames, has_cuts, written, artifact,
                 completed, pmVars>>

\* The loop of a sequential stage ends.
LeaveSeqStage ==
  /\ stage \in SeqStages
  /\ phase = "run"
  /\ rq_left = 0
  /\ ~rq_busy
  /\ stage' = NextStage(stage)
  /\ phase' = "enter"
  /\ completed' = Append(completed, stage)
  /\ UNCHANGED <<env, concurrency, has_frames, has_cuts, rq_left, rq_busy,
                 written, raised, artifact, inflight, pmVars>>

\* The fan-out stages whose requests are one per tick or mark; the scene
\* segments have their own requests (SegmentRequests).
TickStages == MapStages \ {"segments"}

\* Whether the stage's guard lets it reach _parallel_map: dense and scene
\* captions return [] without frames, scene captions need scene_cuts,
\* per-second descriptions need frames.
StageCalls(s, dense_on, per_second_on) ==
  CASE s = "dense" -> dense_on /\ has_frames
    [] s = "scene_captions" -> has_cuts /\ has_frames
    [] s = "per_second" -> per_second_on /\ has_frames
    [] OTHER -> FALSE

\* A fan-out stage whose guard holds calls
\* _parallel_map(requests, _run, VLM_CONCURRENCY) with at least the request
\* of the tick or mark 0.0.
EnterMapStage(n, dense_on, per_second_on) ==
  /\ stage \in TickStages
  /\ phase = "enter"
  /\ StageCalls(stage, dense_on, per_second_on)
  /\ n >= 1
  /\ ParallelMapCall(StageItems(n), concurrency)
  /\ phase' = "run"
  /\ UNCHANGED <<stage, env, concurrency, has_frames, has_cuts, rq_left, rq_busy,
                 written, raised, artifact, completed>>

\* A fan-out stage whose guard fails is skipped: its track stays [].
SkipMapStage(dense_on, per_second_on) ==
  /\ stage \in TickStages
  /\ phase = "enter"
  /\ ~StageCalls(stage, dense_on, per_second_on)
  /\ stage' = NextStage(stage)
  /\ completed' = Append(completed, stage)
  /\ UNCHANGED <<phase, env, concurrency, has_frames, has_cuts, rq_left, rq_busy,
                 written, raised, artifact, inflight, pmVars>>

\* _parallel_map has returned its list, or raised: the stage's track is
\* assigned and the body goes on, or the exception leaves analyze_video.
LeaveMapStage ==
  /\ stage \in TickStages
  /\ phase = "run"
  /\ pm_pc \in {"returned", "raised"}
  /\ stage' = StageAfter(stage, pm_pc = "returned")
  /\ raised' = RaisedAfter(raised, stage, pm_pc = "returned")
  /\ completed' = CompletedAfter(completed, stage, pm_pc = "returned")
  /\ phase' = "enter"
  /\ pm_pc' = "idle"
  /\ pm_items' = <<>>
  /\ pm_workers' = 0
  /\ pm_next' = 1
  /\ pm_status' = <<>>
  /\ pm_fut' = <<>>
  /\ pm_results' = <<>>
  /\ pm_order' = <<>>
  /\ pm_exc' = FALSE
  /\ pm_nthreads' = 0
  /\ pm_ret' = [set |-> FALSE, val |-> <<>>]
  /\ pm_log' = <<>>
  /\ UNCHANGED <<env, concurrency, has_frames, has_cuts, rq_left, rq_busy,
                 written, artifact, inflight>>

\* The scene segments stage of a run: without frames scene_segments stays [],
\* ...
SegmentsSkipped ==
  /\ stage = "segments"
  /\ phase = "enter"
  /\ SegSkip
  /\ stage' = NextStage(stage)
  /\ completed' = Append(completed, stage)
  /\ UNCHANGED <<phase, env, concurrency, has_frames, has_cuts, rq_left, rq_busy,
                 written, raised, artifact>>

\* ... with frames the requests go to _parallel_map, ...
SegmentsRequested ==
  /\ stage = "segments"
  /\ phase = "enter"
  /\ SegBuild
  /\ phase' = "run"
  /\ UNCHANGED <<stage, env, concurrency, has_frames, has_cuts, rq_left, rq_busy,
                 written, raised, artifact, completed>>

\* ... and its list becomes scene_segments, or its exception leaves
\* analyze_video.
SegmentsAssigned ==
  /\ stage = "segments"
  /\ phase = "run"
  /\ SegAssign
  /\ stage' = StageAfter(stage, pm_pc = "returned")
  /\ raised' = RaisedAfter(raised, stage, pm_pc = "returned")
  /\ completed' = CompletedAfter(completed, stage, pm_pc = "returned")
  /\ phase' = "enter"
  /\ UNCHANGED <<env, concurrency, has_frames, has_cuts, rq_left, rq_busy,
                 written, artifact>>

\* output_path.write_text(json.dumps(result, indent=2))
WriteResult ==
  /\ stage = "write"
  /\ written' = written + 1
  /\ artifact' = ResultFields
  /\ stage' = "done"
  /\ UNCHANGED <<phase, env, concurrency, has_frames, has_cuts, rq_left, rq_busy,
                 raised, completed, inflight, pmVars>>

\* What the stages above leave alone besides what they name.
notProbe == <<frames, cfg, kfVars, known_entities, jtVars, bgVars, segVars>>
notFrames == <<duration, cfg, kfVars, known_entities, jtVars, bgVars, segVars>>
notCuts == <<inVars, kfVars, known_entities, jtVars, bgVars, segment_requests,
             scene_segments, seg_pc>>
notSegments == <<inVars, kfVars, known_entities, jtVars, bgVars>>

ProbeAny ==
  (\E ok \in BOOLEAN, dur \in PipeDurations : Probe(ok, dur)) /\ UNCHANGED notProbe
SceneCutsStageAny ==
  (\E ok \in BOOLEAN, stream \in FewStreams : SceneCutsStage(ok, stream))
    /\ UNCHANGED notCuts
ExtractFramesAny ==
  (\E ok \in BOOLEAN, some \in BOOLEAN : ExtractFrames(ok, some)) /\ UNCHANGED notFrames
AudioAny == (\E ok \in BOOLEAN : Audio(ok)) /\ UNCHANGED notPipe
EnterSeqStageAny == (\E n \in 0..MaxItems : EnterSeqStage(n)) /\ UNCHANGED notPipe
RequestStartStep == RequestStart /\ UNCHANGED notPipe
RequestFinishAny ==
  (\E ok \in BOOLEAN, payload \in vlm_answers : RequestFinish(ok, payload))
    /\ UNCHANGED notRequest
LeaveSeqStageStep == LeaveSeqStage /\ UNCHANGED notPipe
\* DENSE_INTERVAL > 0 and PER_SECOND_FPS > 0 are read from the environment.
EnterMapStageAny ==
  (\E n \in 0..MaxItems, d \in BOOLEAN, p \in BOOLEAN : EnterMapStage(n, d, p))
    /\ UNCHANGED notPipe
SkipMapStageAny ==
  (\E d \in BOOLEAN, p \in BOOLEAN : SkipMapStage(d, p)) /\ UNCHANGED notPipe
LeaveMapStageStep == LeaveMapStage /\ UNCHANGED notPipe
SegmentsSkippedStep == SegmentsSkipped /\ UNCHANGED notSegments
SegmentsRequestedStep == SegmentsRequested /\ UNCHANGED notSegments
SegmentsAssignedStep == SegmentsAssigned /\ UNCHANGED notSegments
WriteResultStep == WriteResult /\ UNCHANGED notPipe

PipeStep ==
  \/ ProbeAny
  \/ SceneCutsStageAny
  \/ ExtractFramesAny
  \/ AudioAny
  \/ EnterSeqStageAny
  \/ RequestStartStep
  \/ RequestFinishAny
  \/ LeaveSeqStageStep
  \/ EnterMapStageAny
  \/ SkipMapStageAny
  \/ LeaveMapStageStep
  \/ SegmentsSkippedStep
  \/ SegmentsRequestedStep
  \/ SegmentsAssignedStep
  \/ WriteResultStep

\* A run of analyze_video, with VLM_CONCURRENCY as the module computed it from
\* the environment.
InitPipe ==
  /\ PMIdle
  /\ inflight = {}
  /\ stage = "probe"
  /\ phase = "enter"
  /\ env \in EnvVals
  /\ concurrency = CoerceInt(env, DefaultConcurrency, 1)
  /\ has_frames = FALSE
  /\ has_cuts = FALSE
  /\ rq_left = 0
  /\ rq_busy = FALSE
  /\ written = 0
  /\ raised = {}
  /\ artifact = {}
  /\ completed = <<>>
  /\ InIdle
  /\ KFIdle
  /\ vlm_answers = FewPayloads
  /\ JTIdle
  /\ BGIdle
  /\ pts_stream = <<>>
  /\ sc_status = "pending"
  /\ scene_cuts = <<>>
  /\ segment_requests = <<>>
  /\ scene_segments = <<>>
  /\ seg_pc = "call"

NextPipe == PipeStep \/ PMStep

SpecPipe == InitPipe /\ [][NextPipe]_vars

\* ---- the keyframe scan alone
ScanFrameAny ==
  (\E ok \in BOOLEAN, payload \in vlm_answers : ScanFrame(ok, payload))
    /\ UNCHANGED <<notKF, vlm_answers>>
CloseFinalEventStep == CloseFinalEvent /\ UNCHANGED <<notKF, vlm_answers>>

\* A scan over any frame sequence, configuration and duration, or over the
\* 10 s scenario under the default configuration.
InitKF ==
  /\ PMIdle
  /\ inflight = {}
  /\ PipeIdle
  /\ \/ frames \in FrameLists /\ cfg \in Configs /\ duration \in Durations
     \/ frames = ScenarioFrames /\ cfg = DefaultConfig /\ duration = ScenarioDuration
  /\ KFStart
  /\ vlm_answers = {NoEntitiesPayload}
  /\ JTIdle
  /\ BGIdle
  /\ SegIdle

NextKF == ScanFrameAny \/ CloseFinalEventStep

SpecKF == InitKF /\ [][NextKF]_vars

\* ---- the keyframe scan with a captioning capability that names entities
\* Frame sequences in which every frame differs from the one before it.
ChangingFrames == {<<>>, <<0>>, <<0, 50>>, <<0, 50, 0>>}

InitKE ==
  /\ PMIdle
  /\ inflight = {}
  /\ PipeIdle
  /\ frames \in ChangingFrames
  /\ cfg = DefaultConfig
  /\ duration = 20000
  /\ KFStart
  /\ vlm_answers = RawPayloads
  /\ JTIdle
  /\ BGIdle
  /\ SegIdle

SpecKE == InitKE /\ [][NextKF]_vars

\* ---- the per-second ticks and the justification chunker alone
DescribePerSecondAny == (\E ok \in BOOLEAN : DescribePerSecond(ok)) /\ UNCHANGED notJT
JustifyNothingStep == JustifyNothing /\ UNCHANGED notJT
JustifyBeginStep == JustifyBegin /\ UNCHANGED notJT
JustifyChunkAny ==
  /\ \E ok \in BOOLEAN, response \in RawResponses : JustifyChunk(ok, response)
  /\ UNCHANGED notJT
JustifyEndStep == JustifyEnd /\ UNCHANGED notJT

\* _build_justification_timeline is called with the per-second descriptions
\* analyze_video has built for the video's duration and frame count.
InitJT ==
  /\ PMIdle
  /\ inflight = {}
  /\ PipeIdle
  /\ KFIdle
  /\ vlm_answers = {NoEntitiesPayload}
  /\ cfg = DefaultConfig
  /\ duration \in JTDurations
  /\ \E n \in FrameCounts : frames = [i \in 1..n |-> 0]
  /\ jcfg \in JConfigs
  /\ per_second_times = <<>>
  /\ describe_requests = <<>>
  /\ per_second_descriptions = <<>>
  /\ jt_pc = "ticks"
  /\ jt_t = 0
  /\ justification_timeline = <<>>
  /\ last_chunk = NoChunk
  /\ BGIdle
  /\ SegIdle

NextJT ==
  \/ DescribePerSecondAny
  \/ JustifyNothingStep
  \/ JustifyBeginStep
  \/ JustifyChunkAny
  \/ JustifyEndStep

SpecJT == InitJT /\ [][NextJT]_vars

\* ---- the window aggregator alone
BgBeginStep == BgBegin /\ UNCHANGED notBG
BgTickAny ==
  (\E ok \in BOOLEAN, raw_summary \in RawSummaries : BgTick(ok, raw_summary))
    /\ UNCHANGED notBG
BgEndStep == BgEnd /\ UNCHANGED notBG

\* The aggregator is reached with the captions of a finished scan and the
\* transcript; it reads nothing else of what the earlier stages left.
InitBGOf(configs) ==
  /\ PMIdle
  /\ inflight = {}
  /\ PipeIdle
  /\ frames = <<>>
  /\ cfg = DefaultConfig
  /\ duration \in BgDurations
  /\ kf_pc = "done"
  /\ index = 0
  /\ prev_signature = NoSignature
  /\ last_caption_time = InitialLastCaptionTime
  /\ last_caption_id = NoCaptionId
  /\ segment_start = 0
  /\ \E times \in CaptionTimeLists : captions = CaptionsAt(times)
  /\ events = <<>>
  /\ selected = <<>>
  /\ caption_requests = <<>>
  /\ vlm_answers = {NoEntitiesPayload}
  /\ known_entities \in {<<>>, <<"ann">>}
  /\ JTIdle
  /\ bgcfg \in configs
  /\ audio_segments \in AudioLists
  /\ bg_pc = "call"
  /\ bg_t = 0
  /\ state = EmptyState
  /\ last_caption_marker = -1
  /\ last_audio_marker = -1
  /\ background_updates = <<>>
  /\ bg_log = <<>>
  /\ SegIdle

InitBG == InitBGOf(BgConfigs)

NextBG == BgBeginStep \/ BgTickAny \/ BgEndStep

SpecBG == InitBG /\ [][NextBG]_vars

\* The aggregator with ACTION_BG_UPDATE_SEC set to zero as well
\* (BG_UPDATE_SEC = float(os.getenv(...)) takes any number as it is).  The
\* loop is sequential code: a step that can be taken is taken.
BgStrideVals == {0, 5000}
StrideConfigs == [update_sec : BgStrideVals, window_sec : {10000}]
InitBGStride == InitBGOf(StrideConfigs)

SpecBGLive == InitBGStride /\ [][NextBG]_vars /\ WF_vars(NextBG)

\* ------------------------------------------------------ _detect_scene_cuts
DetectSceneCutsAny ==
  /\ \E ok \in BOOLEAN, stream \in PtsStreams : DetectSceneCuts(ok, stream)
  /\ UNCHANGED <<pmVars, inflight, pipeVars, inVars, kfVars, known_entities,
                 jtVars, bgVars, segment_requests, scene_segments, seg_pc>>

\* The detector is called on a video whose scene filter may print any stream.
InitSC ==
  /\ PMIdle
  /\ inflight = {}
  /\ PipeIdle
  /\ InIdle
  /\ KFIdle
  /\ vlm_answers = {NoEntitiesPayload}
  /\ JTIdle
  /\ BGIdle
  /\ pts_stream = <<>>
  /\ sc_status = "pending"
  /\ scene_cuts = <<>>
  /\ segment_requests = <<>>
  /\ scene_segments = <<>>
  /\ seg_pc = "off"

NextSC == DetectSceneCutsAny

SpecSC == InitSC /\ [][NextSC]_vars

\* ---- the scene segmentation alone, with the _parallel_map call it makes
SegSkipStep == SegSkip /\ UNCHANGED notSeg
SegBuildStep == SegBuild /\ UNCHANGED notSeg
SegAssignStep == SegAssign /\ UNCHANGED notSeg

\* The segmentation is reached with the cuts the detector returned, the probed
\* duration and the extracted frames.
InitSeg ==
  /\ PMIdle
  /\ inflight = {}
  /\ stage = "segments"
  /\ phase = "enter"
  /\ env \in EnvVals
  /\ concurrency = CoerceInt(env, DefaultConcurrency, 1)
  /\ frames \in {<<>>, <<0>>}
  /\ has_frames = (frames # <<>>)
  /\ scene_cuts \in CutLists
  /\ pts_stream = scene_cuts
  /\ sc_status = "ok"
  /\ has_cuts = (scene_cuts # <<>>)
  /\ rq_left = 0
  /\ rq_busy = FALSE
  /\ written = 0
  /\ raised = {}
  /\ artifact = {}
  /\ completed = <<>>
  /\ cfg = DefaultConfig
  /\ duration \in SegDurations
  /\ KFIdle
  /\ vlm_answers = {NoEntitiesPayload}
  /\ JTIdle
  /\ BGIdle
  /\ segment_requests = <<>>
  /\ scene_segments = <<>>
  /\ seg_pc = "call"

NextSeg == SegSkipStep \/ SegBuildStep \/ SegAssignStep \/ PMStep

SpecSeg == InitSeg /\ [][NextSeg]_vars

\* ---- a single call of _parallel_map with any items and any cap
InvokeParallelMap ==
  /\ \E items \in ItemLists, c \in WorkerCaps : ParallelMapCall(items, c)
  /\ UNCHANGED notPM

InitPM ==
  /\ PMIdle
  /\ inflight = {}
  /\ PipeIdle
  /\ InIdle
  /\ KFIdle
  /\ vlm_answers = {NoEntitiesPayload}
  /\ JTIdle
  /\ BGIdle
  /\ SegIdle

NextPM == InvokeParallelMap \/ PMStep

SpecPM == InitPM /\ [][NextPM]_vars

\* ================================================================== claims
\* ------------------------------------------------------------ _parallel_map
\* The list a call is expected to produce: position i holds func(items[i]).
Expected(items) == [i \in 1..Len(items) |-> func(items[i])]

PMOver == pm_pc \in {"returned", "raised"}
SomeRequestFailed == \E i \in 1..Len(pm_status) : pm_status[i] = "err"

\* C1: for any N requests, any cap C >= 2 and any completion order, a call in
\* which no request fails returns a list of length N whose position i holds
\* func(request i).
C1_OrderPreserved ==
  (pm_workers >= 2 /\ PMOver /\ ~SomeRequestFailed)
    => /\ pm_pc = "returned"
       /\ pm_ret.set
       /\ Len(pm_ret.val) = Len(pm_items)
       /\ \A i \in 1..Len(pm_items) : pm_ret.val[i] = func(pm_items[i])

\* C1 witness: three different requests returned although as_completed
\* yielded them in an order other than the submission order.
C1_Witness ==
  /\ pm_pc = "returned"
  /\ pm_workers >= 2
  /\ pm_items = <<1, 2, 1>>
  /\ pm_order = <<3, 2, 1>>

\* C3: when a request of the batch raises, the call raises and hands no list
\* to the caller, on the sequential and on the pooled path.
C3_FailureIsFatal ==
  /\ SomeRequestFailed => (~pm_ret.set /\ pm_pc \notin {"return", "returned"})
  /\ (PMOver /\ SomeRequestFailed) => pm_pc = "raised"
  /\ pm_pc = "raised" => ~pm_ret.set

\* C3 witness: the pooled call raised although another request's result had
\* already been stored in the local list.
C3_Witness ==
  /\ pm_pc = "raised"
  /\ ~SequentialPath(pm_items, pm_workers)
  /\ \E i \in 1..Len(pm_results) : pm_results[i] # None

\* C4: with C <= 1 or N <= 1 the requests run one at a time, in list order,
\* in the calling thread, and the list returned is the list the pooled path
\* returns for the same requests (position i holds func(request i)).
C4_SequentialEquivalent ==
  (pm_workers <= 1 \/ Len(pm_items) <= 1)
    => /\ pm_nthreads = 0
       /\ Cardinality(Running) <= 1
       /\ \A k \in 1..Len(pm_log) : pm_log[k].by = "caller" /\ pm_log[k].idx = k
       /\ pm_pc = "returned" => (pm_ret.set /\ pm_ret.val = Expected(pm_items))

\* C4 witness: a sequential call of three requests has returned.
C4_Witness ==
  /\ pm_pc = "returned"
  /\ pm_workers <= 1
  /\ Len(pm_items) = 3
  /\ Len(pm_log) = 3

\* ------------------------------------------------- analyze_video: in flight
\* C2: at every moment of a run with cap C at most max(C, 1) requests are in
\* flight; a _parallel_map invocation never has more than C requests
\* executing; and every executing request belongs to the stage the control
\* flow is in, so the invocations of different stages overlap neither each
\* other nor the request of a sequential stage.
C2_BoundedInFlight ==
  /\ Cardinality(inflight) <= Max(concurrency, 1)
  /\ pm_pc # "idle" => Cardinality(Running) <= pm_workers
  /\ \A r \in inflight : r.stage = stage
  /\ rq_busy => (Running = {} /\ Cardinality(inflight) = 1)

\* C2 witness: with a cap of 2 the per-second fan-out has two requests
\* executing while a third one waits in the queue.
C2_Witness ==
  /\ stage = "per_second"
  /\ concurrency = 2
  /\ Cardinality(inflight) = 2
  /\ Queued # {}

\* ------------------------------------------------------------ keyframe scan
KFDone == kf_pc = "done"
\* The raw timestamp of the k-th selected frame.
KeyTime(k) == Timestamp(selected[k], cfg.fps)
\* The signature of frame idx (0-based, as in the scan).
Sig(idx) == frames[idx + 1]

\* C7: for any frame sequence with at least one frame and any duration, the
\* events partition [0, duration]: sorted by t_start, first t_start = 0, each
\* t_end equal to the next t_start, t_start <= t_end in every event, and the
\* last t_end = duration.
C7_EventsPartition ==
  (KFDone /\ Len(frames) >= 1)
    => /\ Len(events) >= 1
       /\ events[1].t_start = 0
       /\ \A i \in 1..Len(events) - 1 :
            /\ events[i].t_end = events[i + 1].t_start
            /\ events[i].t_start <= events[i + 1].t_start
       /\ \A i \in 1..Len(events) : events[i].t_start <= events[i].t_end
       /\ events[Len(events)].t_end = Round3(duration)

\* C8 as claimed: two consecutive keyframes t1 < t2 differ by at least
\* diff_threshold from each other and are min_gap apart, or are max_gap apart.
C8_GapRuleBetweenKeyframes ==
  \A k \in 1..Len(selected) - 1 :
    LET t1 == KeyTime(k)
        t2 == KeyTime(k + 1)
    IN  \/ /\ DiffScore(Sig(selected[k + 1]), Sig(selected[k])) >= DIFF_THRESHOLD
           /\ t2 - t1 >= cfg.min_gap
        \/ t2 - t1 >= cfg.max_gap

\* C8 amended: for two consecutive keyframes t1 < t2, the frame at t2 differs
\* by at least diff_threshold from the frame immediately before it in the
\* sequence and t2 - t1 >= min_gap, or t2 - t1 >= max_gap.
C8_GapRuleAgainstPreviousFrame ==
  \A k \in 1..Len(selected) - 1 :
    LET t1 == KeyTime(k)
        t2 == KeyTime(k + 1)
    IN  \/ /\ DiffScore(Sig(selected[k + 1]), Sig(selected[k + 1] - 1)) >= DIFF_THRESHOLD
           /\ t2 - t1 >= cfg.min_gap
        \/ t2 - t1 >= cfg.max_gap

\* C8 witness: a second keyframe selected for its difference from the frame
\* before it, although it differs from the first keyframe by less than the
\* threshold and lies less than max_gap after it.
C8_Witness ==
  /\ KFDone
  /\ Len(selected) >= 2
  /\ DiffScore(Sig(selected[2]), Sig(selected[1])) < DIFF_THRESHOLD
  /\ DiffScore(Sig(selected[2]), Sig(selected[2] - 1)) >= DIFF_THRESHOLD
  /\ KeyTime(2) - KeyTime(1) < cfg.max_gap

InScenario ==
  frames = ScenarioFrames /\ cfg = DefaultConfig /\ duration = ScenarioDuration

CaptionTimes == [k \in 1..Len(captions) |-> captions[k].t]

\* C9 as claimed: in the 10 s scenario the keyframes are exactly t = 0 and
\* t = 7.5 and the events are [{0, 7.5, 0}, {7.5, 10, 1}].
C9_ScenarioTwoKeyframes ==
  (InScenario /\ KFDone)
    => /\ CaptionTimes = <<0, 75000>>
       /\ events = << [t_start |-> 0, t_end |-> 75000, caption_id |-> 0],
                      [t_start |-> 75000, t_end |-> 100000, caption_id |-> 1] >>

\* C9 amended: in the 10 s scenario the keyframes are t = 0, t = 6.0 (max_gap
\* reached), t = 7.5 (frame 15 differs from frame 14) and t = 8.0 (frame 16
\* differs from frame 15), and the events are [{0, 6, 0}, {6, 7.5, 1},
\* {7.5, 8, 2}, {8, 10, 3}].
C9_ScenarioFourKeyframes ==
  (InScenario /\ KFDone)
    => /\ CaptionTimes = <<0, 60000, 75000, 80000>>
       /\ events = << [t_start |-> 0, t_end |-> 60000, caption_id |-> 0],
                      [t_start |-> 60000, t_end |-> 75000, caption_id |-> 1],
                      [t_start |-> 75000, t_end |-> 80000, caption_id |-> 2],
                      [t_start |-> 80000, t_end |-> 100000, caption_id |-> 3] >>

\* C9 witness: the scan of the scenario's 20 frames has ended.
C9_Witness == InScenario /\ KFDone /\ index = 20 /\ Len(events) = 4

EventsPartitionWhenFramesWithinDuration ==
  (KFDone /\ Len(frames) >= 1 /\ Timestamp(Len(frames) - 1, cfg.fps) <= duration)
    => C7_EventsPartition

\* ---------------------------------------------------------------- C5, C6
JTDone == jt_pc = "done"

\* C5: when _build_justification_timeline has returned, justification_timeline
\* holds exactly one entry per per-second description, with that description's
\* timestamp, in order: no timestamp is missing and none appears twice.
C5_OneEntryPerSecond ==
  JTDone =>
    /\ Len(justification_timeline) = Len(per_second_descriptions)
    /\ \A i \in 1..Len(per_second_descriptions) :
         justification_timeline[i].t = per_second_descriptions[i].t

\* An item of the response speaks for timestamp t_value: its t, 0.0 when it
\* carries none, is t_value after rounding to three decimals.
SpeaksFor(item, t_value) ==
  /\ item.object
  /\ item.has_t => item.t_form = "number"
  /\ (IF item.has_t THEN Round3(item.t) ELSE 0) = t_value

C11_FirstFrameSelected ==
  /\ index >= 1 =>
       /\ Len(selected) >= 1
       /\ selected[1] = 0
       /\ captions[1].id = 0
       /\ captions[1].t = 0
  /\ frames = <<>> => (captions = <<>> /\ events = <<>>)

\* A finished scan of several frames, none differing from its predecessor,
\* whose only keyframe is the first frame.
C11_Witness ==
  /\ KFDone
  /\ Len(frames) >= 2
  /\ \A i \in 1..Len(frames) : frames[i] = 50
  /\ selected = <<0>>
  /\ captions[1].t = 0

\* C12: after the scan there are as many events as captions, caption ids are
\* 0..n-1 in list order, and the i-th event has caption_id = i, starts at
\* caption i's timestamp and ends at caption i+1's timestamp, the last one at
\* the duration (rounded to 3 decimals, as the result's duration is).
C12_EventsFollowCaptions ==
  KFDone =>
    /\ Len(events) = Len(captions)
    /\ \A i \in 1..Len(captions) :
         /\ captions[i].id = i - 1
         /\ events[i].caption_id = i - 1
         /\ events[i].t_start = captions[i].t
         /\ events[i].t_end =
              IF i < Len(captions) THEN captions[i + 1].t ELSE Round3(duration)

C12_Witness ==
  /\ KFDone
  /\ Len(captions) >= 3
  /\ events[2].caption_id = 1
  /\ events[2].t_end = captions[3].t

\* The list seq without its repetitions, first occurrences in order.
RECURSIVE Distinct(_)
Distinct(seq) ==
  IF seq = <<>> THEN <<>>
  ELSE <<Head(seq)>> \o Distinct(SelectSeq(Tail(seq), LAMBDA x : x # Head(seq)))

\* The people and objects of captions 0..k-1, in caption order.
RECURSIVE NamesOfCaptions(_)
NamesOfCaptions(k) ==
  IF k = 0 THEN <<>>
  ELSE NamesOfCaptions(k - 1) \o captions[k].people \o captions[k].objects

IsPrefix(a, b) == Len(a) <= Len(b) /\ \A i \in 1..Len(a) : a[i] = b[i]

\* C13: known_entities never holds a name twice nor an empty string, the
\* request for the k-th keyframe is given exactly the names of captions
\* 0..k-1 in first-seen order, and every step of the scan only appends to the
\* list.
C13_KnownEntities ==
  /\ [](/\ \A i, j \in 1..Len(known_entities) :
             known_entities[i] = known_entities[j] => i = j
        /\ \A i \in 1..Len(known_entities) : known_entities[i] # ""
        /\ \A k \in 1..Len(caption_requests) :
             caption_requests[k] = Distinct(NamesOfCaptions(k - 1))
        /\ known_entities = Distinct(NamesOfCaptions(Len(captions))))
  /\ [][IsPrefix(known_entities, known_entities')]_vars

\* The third keyframe's answer names someone already known and someone new:
\* the list grows by the new name only.
C13_Witness ==
  /\ Len(captions) = 3
  /\ Len(caption_requests[3]) = 2
  /\ captions[3].people # <<>>
  /\ InList(captions[3].people[1], caption_requests[3])
  /\ Len(known_entities) = 3

\* The stages that follow the keyframe scan.
AfterScan == stage \in MapStages \cup {"background", "justify", "write"}

\* C14: from the end of the keyframe scan until the result is written no step
\* modifies known_entities, and whenever a request of a bounded parallel map
\* executes, the stage running is a fan-out stage and no request of a
\* sequential stage (the scan is one) is executing.
C14_EntitiesReadOnlyAfterScan ==
  /\ [][AfterScan => known_entities' = known_entities]_vars
  /\ []((Running # {}) => (stage \in MapStages /\ ~rq_busy))

\* Two per-second requests executing at once, reading a list of two names.
C14_Witness ==
  /\ stage = "per_second"
  /\ Cardinality(Running) = 2
  /\ Len(known_entities) = 2

\* --------------------------------------------------- C15, C16, C17, C18, C19
\* The (newest_caption_id, newest_audio_idx) pair computed at the k-th tick
\* run so far, (-1, -1) before the first one.
PairAt(k) == IF k = 0 THEN <<-1, -1>> ELSE <<bg_log[k].caption_id, bg_log[k].audio_idx>>
Ticks == 1..Len(bg_log)
ChangedTicks == {k \in Ticks : PairAt(k) # PairAt(k - 1)}
CalledTicks == {k \in Ticks : bg_log[k].called}

\* C15: the summarizer is called at tick k iff the pair computed at tick k
\* differs from the pair computed at tick k-1 ((-1, -1) before the first
\* tick), so T ticks with M pair transitions make exactly M calls.
C15_CallIffPairChanged ==
  /\ \A k \in Ticks : bg_log[k].called <=> PairAt(k) # PairAt(k - 1)
  /\ Cardinality(CalledTicks) = Cardinality(ChangedTicks)

\* A finished run of at least three ticks with fewer calls than ticks, one of
\* them made because only the audio index changed.
C15_Witness ==
  /\ bg_pc = "done"
  /\ Len(bg_log) >= 3
  /\ Cardinality(CalledTicks) >= 2
  /\ Cardinality(CalledTicks) < Len(bg_log)
  /\ \E k \in CalledTicks :
       k > 1 /\ bg_log[k].caption_id = bg_log[k - 1].caption_id

\* The background updates stamped with the time of tick k.
UpdatesOfTick(k) ==
  {i \in 1..Len(background_updates) : background_updates[i].t = Round3(bg_log[k].t)}

\* The call of tick k raised: it is the last tick of a failed run.
CallRaised(k) == bg_pc = "failed" /\ k = Len(bg_log)

\* C16 as claimed: an update is appended on tick k iff the pair of tick k
\* differs from the pair of tick k-1, whatever narration the summarizer
\* returns (a tick whose call raised ends the run and is left aside).
C16_UpdateIffPairChanged ==
  \A k \in Ticks :
    ~CallRaised(k) => ((UpdatesOfTick(k) # {}) <=> (PairAt(k) # PairAt(k - 1)))

\* C16 amended: an update is appended on tick k iff the pair of tick k differs
\* from the pair of tick k-1, the summarizer's call returns and the narration
\* it returns is not empty once stripped; the update then carries the tick's
\* time and that narration, and there is at most one per tick.
C16_UpdateIffPairChangedAndNarration ==
  \A k \in Ticks :
    /\ (UpdatesOfTick(k) # {}) <=>
         (PairAt(k) # PairAt(k - 1) /\ ~CallRaised(k) /\ bg_log[k].summary # "")
    /\ Cardinality(UpdatesOfTick(k)) <= 1
    /\ \A i \in UpdatesOfTick(k) : background_updates[i].narration = bg_log[k].summary

\* A changed tick whose narration was empty left no update, a later changed
\* tick left one.
C16_Witness ==
  /\ \E k \in ChangedTicks :
       bg_log[k].summary = "" /\ ~CallRaised(k) /\ UpdatesOfTick(k) = {}
  /\ \E k \in ChangedTicks : UpdatesOfTick(k) # {}

\* What the window of the k-th tick held (nothing before the first tick).
WindowCaptionsAt(k) == IF k = 0 THEN {} ELSE bg_log[k].window_captions
WindowAudioAt(k) == IF k = 0 THEN {} ELSE bg_log[k].window_audio

\* C17: whenever the summarizer is called at tick k, the window of tick k
\* holds a caption or an audio segment that the window of tick k-1 did not
\* hold.
C17_CallOnlyOnNewEvidence ==
  \A k \in CalledTicks :
    \/ WindowCaptionsAt(k) \ WindowCaptionsAt(k - 1) # {}
    \/ WindowAudioAt(k) \ WindowAudioAt(k - 1) # {}

\* The tick about to run computes the pair the markers hold.
UnchangedTick ==
  /\ bg_pc = "loop"
  /\ bg_t <= duration
  /\ NewestCaptionId(bg_t, bgcfg) = last_caption_marker
  /\ NewestAudioIdx(bg_t, bgcfg) = last_audio_marker

\* C18: a tick whose pair equals the stored markers makes no summarizer call
\* and changes nothing but the tick time: background_updates, state.summary,
\* state.entities, both markers and the entity list keep their values.
C18_UnchangedTickIsSkipped ==
  [][UnchangedTick =>
       /\ bg_t' = bg_t + bgcfg.update_sec
       /\ bg_pc' = bg_pc
       /\ background_updates' = background_updates
       /\ state' = state
       /\ last_caption_marker' = last_caption_marker
       /\ last_audio_marker' = last_audio_marker
       /\ known_entities' = known_entities
       /\ Len(bg_log') = Len(bg_log) + 1
       /\ ~bg_log'[Len(bg_log')].called]_vars

\* A tick was skipped after an earlier tick had produced an update.
C18_Witness ==
  /\ Len(bg_log) >= 2
  /\ ~bg_log[Len(bg_log)].called
  /\ background_updates # <<>>
  /\ state.summary # ""
  /\ last_caption_marker >= 0

\* C19: with no caption and no audio segment the aggregator runs no tick,
\* calls the summarizer never and leaves background_updates empty, for any
\* duration.
C19_NoTracksNoTicks ==
  (captions = <<>> /\ audio_segments = <<>>) =>
    /\ bg_log = <<>>
    /\ background_updates = <<>>
    /\ bg_pc \in {"off", "call", "done"}

\* The aggregator has returned for a 3 s video without captions and audio.
C19_Witness ==
  /\ bg_pc = "done"
  /\ captions = <<>>
  /\ audio_segments = <<>>
  /\ duration = 30000
  /\ bg_log = <<>>
  /\ background_updates = <<>>

\* ---------------------------------------------------------------------- C20
SegDone == seg_pc = "done"

\* The segments are in ascending order with ids 0..n-1, start at 0, follow one
\* another without a gap, are not empty, and end at the duration (rounded to
\* 3 decimals, as every stored time is).
SegmentsPartition ==
  /\ Len(scene_segments) >= 1
  /\ \A i \in 1..Len(scene_segments) :
       /\ scene_segments[i].id = i - 1
       /\ scene_segments[i].t_end > scene_segments[i].t_start
  /\ scene_segments[1].t_start = 0
  /\ \A i \in 1..Len(scene_segments) - 1 :
       scene_segments[i].t_end = scene_segments[i + 1].t_start
  /\ scene_segments[Len(scene_segments)].t_end = Round3(duration)

\* C20: whenever scene_cuts is non-empty and at least one frame exists, the
\* scene segments of a finished segmentation partition [0, duration] with no
\* gaps.
C20_SegmentsPartition ==
  (SegDone /\ scene_cuts # <<>> /\ frames # <<>>) => SegmentsPartition

\* Every cut lies before the duration as the result stores it.
CutsBeforeDuration ==
  \A i \in 1..Len(scene_cuts) : scene_cuts[i] < Round3(duration)

\* The partition holds for the videos whose cuts all lie before the duration.
SegmentsPartitionWhenCutsBeforeDuration ==
  (SegDone /\ scene_cuts # <<>> /\ frames # <<>> /\ CutsBeforeDuration)
    => SegmentsPartition

\* ---------------------------------------------------------------------- C29
\* The requests that were started (by the caller or by a worker).
Started == {pm_log[k].idx : k \in 1..Len(pm_log)}

\* C29: when a call of _parallel_map has raised, on the pooled path every
\* request of the batch was started and has finished before the error reached
\* the caller; on the sequential path the requests before the failing one
\* have returned and the ones after it were never started.
C29_FailureCancelsNothing ==
  pm_pc = "raised" =>
    IF SequentialPath(pm_items, pm_workers)
    THEN \E f \in 1..Len(pm_items) :
           /\ pm_status[f] = "err"
           /\ \A i \in 1..Len(pm_items) :
                /\ i < f => pm_status[i] = "ok"
                /\ i > f => (pm_status[i] = "new" /\ i \notin Started)
    ELSE /\ Started = 1..Len(pm_items)
         /\ \A i \in 1..Len(pm_items) : pm_status[i] \in {"ok", "err"}
         /\ Running = {} /\ Queued = {}

\* C29 witness: a pooled call of three requests on two workers raised after
\* the failure of the first request was the first thing as_completed yielded;
\* the third request, which was submitted behind it, has returned.
C29_Witness ==
  /\ pm_pc = "raised"
  /\ pm_workers = 2
  /\ Len(pm_items) = 3
  /\ pm_order = <<1>>
  /\ pm_status = <<"err", "ok", "ok">>

\* ---------------------------------------------------------------------- C28
\* Every frame scanned so far differs from its predecessor by less than the
\* threshold.
SlowDrift ==
  \A i \in 1..index - 1 : DiffScore(Sig(i), Sig(i - 1)) < DIFF_THRESHOLD

\* C28: in the keyframe scan prev_signature is the signature of the frame
\* scanned last, selected or not; so when every frame differs from its
\* predecessor by less than diff_threshold, every keyframe after the first is
\* at least max_gap after the keyframe before it, however far the frame is
\* from that keyframe's signature.
C28_DiffAgainstPreviousFrame ==
  kf_pc # "off" =>
    /\ prev_signature = IF index = 0 THEN NoSignature ELSE Sig(index - 1)
    /\ SlowDrift =>
         \A k \in 2..Len(selected) : KeyTime(k) - KeyTime(k - 1) >= cfg.max_gap

\* C28 witness: four frames drifting 0, 0.10, 0.20, 0.20 with a max_gap the
\* video never reaches: the last frames are a full threshold away from the
\* only keyframe, and none was selected.
C28_Witness ==
  /\ KFDone
  /\ frames = <<0, 10, 20, 20>>
  /\ cfg.max_gap = 60000
  /\ selected = <<0>>
  /\ DiffScore(Sig(3), Sig(0)) >= DIFF_THRESHOLD
  /\ prev_signature = 20

\* ---------------------------------------------------------------------- C25
\* The ticks at which the summarizer was called and returned.
ReturnedTicks == {k \in CalledTicks : ~CallRaised(k)}

\* The first tick after k at which the summarizer was called, 0 if none.
NextCalledTick(k) ==
  IF \E j \in CalledTicks : j > k
  THEN CHOOSE j \in CalledTicks : j > k /\ \A i \in CalledTicks : i > k => j <= i
  ELSE 0

\* C25: when the call of tick k returns an empty narration, the tick appends
\* no update; while no later call has returned, the markers are tick k's pair
\* and state.summary is empty; the summarizer is not called at the ticks that
\* follow with the same pair; and the next call gets an empty
\* previous_summary.
C25_EmptyNarrationStillMarks ==
  \A k \in ReturnedTicks :
    bg_log[k].summary = "" =>
      /\ UpdatesOfTick(k) = {}
      /\ \A j \in Ticks :
           (j > k /\ \A i \in (k + 1)..j : PairAt(i) = PairAt(k)) => ~bg_log[j].called
      /\ NextCalledTick(k) # 0 => bg_log[NextCalledTick(k)].previous_summary = ""
      /\ (\A j \in ReturnedTicks : j <= k) =>
           /\ <<last_caption_marker, last_audio_marker>> = PairAt(k)
           /\ state.summary = ""

\* C25 witness: a call that answered "s1", then a call that answered only
\* blanks, then a tick with the same pair and no call, then a call.
C25_Witness ==
  \E k \in ReturnedTicks :
    /\ k > 1 /\ k + 2 <= Len(bg_log)
    /\ bg_log[k].previous_summary = "s1"
    /\ bg_log[k].summary = ""
    /\ ~bg_log[k + 1].called
    /\ bg_log[k + 2].called
    /\ bg_log[k + 2].previous_summary = ""

\* ---------------------------------------------------------------------- C26
\* The greatest position (from 0) of a segment overlapping the window of tick
\* k, -1 if none overlaps.
GreatestOverlapping(k) ==
  IF bg_log[k].window_audio = {} THEN -1
  ELSE CHOOSE i \in bg_log[k].window_audio : \A j \in bg_log[k].window_audio : j <= i

\* C26: at every tick newest_audio_idx is the greatest index of an audio
\* segment overlapping the window, or -1 if none overlaps, for every segment
\* list, lists with two equal segments included.
C26_NewestAudioIsGreatestOverlapping ==
  \A k \in Ticks : bg_log[k].audio_idx = GreatestOverlapping(k)

\* No two segments of the list are equal as dictionaries.
DistinctSegments ==
  \A i, j \in 1..Len(audio_segments) :
    audio_segments[i] = audio_segments[j] => i = j

\* For lists of pairwise different segments the index is the greatest one.
NewestAudioIsGreatestWhenDistinct ==
  DistinctSegments => C26_NewestAudioIsGreatestOverlapping

\* ---------------------------------------------------------------------- C24
\* The frame index of tick i of the per-second stage.
TickIndex(i) == FrameIndexForTimestamp(per_second_times[i], Len(frames), cfg.fps)

\* The ticks that start a maximal run of adjacent ticks with one frame index.
RunStarts ==
  {i \in 1..Len(per_second_times) : i = 1 \/ TickIndex(i) # TickIndex(i - 1)}

\* The tick that starts the k-th run.
RunStart(k) ==
  CHOOSE i \in RunStarts : Cardinality({j \in RunStarts : j <= i}) = k

\* C24: after the per-second stage, the requests are one per maximal run of
\* adjacent ticks with the same frame index, in tick order, each with the
\* run's first timestamp and the run's frame; the output has one entry per
\* request with that timestamp, two consecutive entries never come from the
\* same frame, and a skipped tick has no entry.
C24_OneRequestPerRun ==
  jt_pc \in {"call", "loop", "done"} =>
    /\ Len(describe_requests) = Cardinality(RunStarts)
    /\ Len(per_second_descriptions) = Cardinality(RunStarts)
    /\ \A k \in 1..Len(describe_requests) :
         /\ describe_requests[k].t = per_second_times[RunStart(k)]
         /\ describe_requests[k].index = TickIndex(RunStart(k))
         /\ per_second_descriptions[k].t = Round3(per_second_times[RunStart(k)])
         /\ k > 1 => describe_requests[k].index # describe_requests[k - 1].index
    /\ \A i \in 1..Len(per_second_times) :
         i \notin RunStarts =>
           \A k \in 1..Len(per_second_descriptions) :
             per_second_descriptions[k].t # Round3(per_second_times[i])

\* C24 witness: four ticks a second on frames extracted at 2 fps: the ticks
\* 0 and 0.25 share frame 0, 0.5 has frame 1, 0.75 and 1.0 share frame 2, and
\* the last ticks are all clamped to the last frame.
C24_Witness ==
  /\ jt_pc = "call"
  /\ jcfg.per_second_fps = 4
  /\ Len(frames) = 5
  /\ duration = 25000
  /\ Len(per_second_times) = 11
  /\ Len(per_second_descriptions) = 5
  /\ per_second_descriptions[3].t = 7500
  /\ 2 \notin RunStarts /\ 5 \notin RunStarts

\* ---------------------------------------------------------------------- C27
\* A well-formed item: an object whose t is a number.
WellFormed(item) == item.object /\ item.has_t /\ item.t_form = "number"

\* C27: whatever the response, _justify_chunk raises nothing while it reads
\* it and returns one entry per per-second description of the chunk, whose
\* justification is "" unless a well-formed item of the response has the
\* entry's timestamp.
C27_MalformedResponseNeverFatal ==
  /\ ~last_chunk.raised
  /\ last_chunk.asked =>
       /\ Len(last_chunk.output) = Len(last_chunk.seconds)
       /\ \A i \in 1..Len(last_chunk.output) :
            last_chunk.output[i].justification # "" =>
              \E k \in 1..Len(last_chunk.items) :
                /\ WellFormed(last_chunk.items[k])
                /\ Round3(last_chunk.items[k].t) = last_chunk.output[i].t

\* Every item of the response is something else than an object, or an object
\* whose t is a number in float range or a value float() rejects with
\* TypeError or ValueError.
NoMissingOrHugeT ==
  \A k \in 1..Len(last_chunk.items) :
    last_chunk.items[k].object =>
      (last_chunk.items[k].has_t /\ last_chunk.items[k].t_form # "huge")

\* For such responses the claim holds.
MalformedRecoveredWhenNoMissingOrHugeT ==
  NoMissingOrHugeT => C27_MalformedResponseNeverFatal

\* ---------------------------------------------------------------------- C21
\* The values of the stream, rounded to 3 decimals.
RoundedSet == {Round3(pts_stream[i]) : i \in 1..Len(pts_stream)}

\* C21: for any sequence of pts_time values the detector reads, scene_cuts is
\* the set of those values rounded to 3 decimals, listed once each in strictly
\* ascending order.
C21_CutsRoundedDedupedSorted ==
  sc_status = "ok" => scene_cuts = Sorted(RoundedSet)

\* The stream is in ascending order of pts_time.
AscendingStream ==
  \A i, j \in 1..Len(pts_stream) : i < j => pts_stream[i] <= pts_stream[j]

\* For the streams that ffmpeg prints in ascending order the claim holds.
CutsSortedWhenStreamAscending ==
  (sc_status = "ok" /\ AscendingStream) => scene_cuts = Sorted(RoundedSet)

\* The two values 1.5012 and 1.5013 of an ascending stream give the one cut
\* 1.501.
CutsOfNearbyValues ==
  (sc_status = "ok" /\ pts_stream = <<15012, 15013>>) => scene_cuts = <<15010>>

\* ---------------------------------------------------------------------- C22
\* The stages before the write, in the order of analyze_video's body.
AllStages ==
  <<"probe", "scene_cuts", "frames", "audio", "keyframes", "dense",
    "scene_captions", "per_second", "segments", "background", "justify">>

\* C22: in a run whose scene-change process failed, scene_cuts is [] and the
\* failure is not an exception of the run; the scene captions stage makes no
\* request and goes on to the next stage; the run fails only when some other
\* stage raises, and is otherwise written after all stages; and the scene
\* segments, once assigned for a video with frames and a positive duration,
\* are the one segment from 0 to the duration.
C22_DetectorFailureIsNotFatal ==
  /\ [](sc_status = "failed" =>
          /\ scene_cuts = <<>>
          /\ ~has_cuts
          /\ "scene_cuts" \notin raised
          /\ stage = "failed" => raised # {}
          /\ \A r \in inflight : r.stage # "scene_captions"
          /\ (seg_pc = "done" /\ frames # <<>> /\ duration > 0) =>
               scene_segments =
                 <<[id |-> 0, t_start |-> 0, t_end |-> Round3(duration)]>>
          /\ written = 1 => completed = AllStages)
  /\ [][(sc_status = "pending" /\ sc_status' = "failed") => stage' = "frames"]_vars
  /\ [][(sc_status = "failed" /\ stage = "scene_captions") =>
          (stage' = "per_second" /\ UNCHANGED pmVars)]_vars

\* C22 witness: the process failed after it had printed a cut, and the run
\* was written with the whole video as its one scene segment.
C22_Witness ==
  /\ sc_status = "failed"
  /\ pts_stream = <<5000>>
  /\ written = 1
  /\ duration = 10000
  /\ frames # <<>>
  /\ scene_segments = <<[id |-> 0, t_start |-> 0, t_end |-> 10000]>>

\* ---------------------------------------------------------------------- C23
\* C23: the output is written at most once, only when every stage has
\* returned, with the twelve fields of the result; a run in which a stage
\* raised is in its failed state with nothing written, and takes no further
\* step.
C23_CompleteOrAbsent ==
  /\ [](/\ written <= 1
        /\ raised # {} => (stage = "failed" /\ written = 0)
        /\ stage = "failed" => raised # {}
        /\ written = 0 => artifact = {}
        /\ written = 1 =>
             /\ stage = "done"
             /\ raised = {}
             /\ completed = AllStages
             /\ artifact = ResultFields
             /\ Cardinality(artifact) = 12)
  /\ [][stage # "failed"]_vars

\* C23 witness: the last request of the last stage raised after every other
\* stage had returned: nothing was written.
C23_Witness ==
  /\ stage = "failed"
  /\ raised = {"justify"}
  /\ Len(completed) = 10
  /\ written = 0
  /\ artifact = {}

\* ---------------------------------------------------------------------- C30
\* The window aggregator's loop is over: it ended, or a summarizer request
\* raised.
BgLoopOver == bg_pc \in {"done", "failed"}

\* C30: for every duration and every value of the stride, zero included, the
\* tick loop of the window aggregator terminates.
C30_TickLoopsTerminate == <>BgLoopOver

\* With a positive stride the loop terminates.
TickLoopTerminatesWhenStridePositive == (bgcfg.update_sec > 0) => <>BgLoopOver

====
